---------------------------- MODULE Spec2Model ----------------------------
(***************************************************************************)
(* A model of the Mython interpreter core: the indentation-sensitive lexer *)
(* (src/mython/lexer.cpp), the runtime value model and class table         *)
(* (src/mython/runtime.cpp) and the tree-walking evaluator                 *)
(* (src/mython/statement.cpp).                                             *)
(*                                                                         *)
(* Two state machines share the module.  SpecLex drives two Lexer objects  *)
(* over character streams that are supplied line by line; Spec drives the  *)
(* evaluator over a global scope.                                          *)
(***************************************************************************)
EXTENDS Integers, Sequences, FiniteSets, TLC

VARIABLES
    \* ---- lexer machine ----
    lexer,      \* the Lexer object over the stream with blank/comment lines
    plain,      \* a Lexer object over the same statements without the lines
                \* inserted between two statements
    source,     \* the streams' bookkeeping: closed, lines fed, held-back lines
    watch,      \* observation of the layout tokens returned per code line
    \* ---- evaluator machine ----
    classes,    \* the classes constructed so far
    closure,    \* the global scope
    heap,       \* the ClassInstance objects
    output,     \* the context's output stream
    outcome,    \* what the last top-level operation did
    steps       \* number of top-level operations run

lexVars  == <<lexer, plain, source, watch>>
evalVars == <<classes, closure, heap, output, outcome, steps>>
vars     == <<lexer, plain, source, watch,
              classes, closure, heap, output, outcome, steps>>

(***************************************************************************)
(* Bounds of the model.                                                    *)
(***************************************************************************)
MaxLines  == 4      \* lines fed to a stream
MaxSpaces == 4      \* leading spaces of a line
MaxJunk   == 2      \* consecutive blank or comment-only lines

----------------------------------------------------------------------------
(***************************************************************************)
(*                              THE LEXER                                  *)
(***************************************************************************)

\* What istream::peek()/get() yield at the end of the stream.
EOF == "EOF"

Digits  == {"0", "1", "2", "3", "4", "5", "6", "7", "8", "9"}
\* isalpha, restricted to the letters the model's streams contain.
Letters == {"a", "b", "c"}

IsDigit(c) == c \in Digits
IsAlpha(c) == c \in Letters

DigitVal(c) ==
    CASE c = "0" -> 0 [] c = "1" -> 1 [] c = "2" -> 2 [] c = "3" -> 3
      [] c = "4" -> 4 [] c = "5" -> 5 [] c = "6" -> 6 [] c = "7" -> 7
      [] c = "8" -> 8 [] c = "9" -> 9

\* The character tables of lexer.h, as the specification lists them.
special_symbols    == {"+", "-", "*", "/", "(", ")", ",", ".", ":"}
comparison_symbols == {"=", "!", "<", ">"}

\* Tokens: a tag and the carried value (value for Id/String/Char, num for Number).
Tok(type)    == [type |-> type, value |-> "", num |-> 0]
IdTok(v)     == [type |-> "Id", value |-> v, num |-> 0]
StringTok(v) == [type |-> "String", value |-> v, num |-> 0]
CharTok(c)   == [type |-> "Char", value |-> c, num |-> 0]
NumberTok(n) == [type |-> "Number", value |-> "", num |-> n]

NewlineTok == Tok("Newline")
IndentTok  == Tok("Indent")
DedentTok  == Tok("Dedent")
EofTok     == Tok("Eof")

\* token_type::keyword_to_token of lexer.h, as the specification lists it.
Keywords == {"class", "return", "if", "else", "def", "print", "and", "or",
             "not", "None", "True", "False"}
keyword_to_token(name) ==
    CASE name = "class"  -> Tok("Class")  [] name = "return" -> Tok("Return")
      [] name = "if"     -> Tok("If")     [] name = "else"   -> Tok("Else")
      [] name = "def"    -> Tok("Def")    [] name = "print"  -> Tok("Print")
      [] name = "and"    -> Tok("And")    [] name = "or"     -> Tok("Or")
      [] name = "not"    -> Tok("Not")    [] name = "None"   -> Tok("None")
      [] name = "True"   -> Tok("True")   [] name = "False"  -> Tok("False")

\* operator== on tokens: same alternative and same carried value.
TokenEq(lhs, rhs) ==
    /\ lhs.type = rhs.type
    /\ lhs.type \in {"Char", "String", "Id"} => lhs.value = rhs.value
    /\ lhs.type = "Number" => lhs.num = rhs.num

(***************************************************************************)
(* A Lexer object.  input is the unread rest of the stream; sawEof records *)
(* that a read reached the end of what the stream holds; err is the        *)
(* message of the exception that ended the last call ("" when none).       *)
(***************************************************************************)
NoToken == Tok("Unset")

NewLexer ==
    [built |-> FALSE, input |-> <<>>, cur |-> NoToken, diff |-> 0,
     indent |-> 0, err |-> "", errKind |-> "", sawEof |-> FALSE]

Throw(L, kind, msg) == [L EXCEPT !.err = msg, !.errKind = kind]
LexerError(L, msg)  == Throw(L, "LexerError", msg)

\* istream::peek(): the next character, or EOF (and the stream notes it).
Peek(L)  == IF L.input = <<>> THEN EOF ELSE Head(L.input)
Touch(L) == IF L.input = <<>> THEN [L EXCEPT !.sawEof = TRUE] ELSE L
\* istream::get() / ignore(1): consume one character if there is one.
Skip(L)  == IF L.input = <<>> THEN [L EXCEPT !.sawEof = TRUE]
            ELSE [L EXCEPT !.input = Tail(L.input)]
\* istream::putback(c): fails, changing nothing, after a read that hit EOF.
Putback(L, c) == IF c = EOF THEN L ELSE [L EXCEPT !.input = <<c>> \o L.input]

\* std::getline(input_, tmp): drop the rest of the line and its '\n'.
RECURSIVE Getline(_)
Getline(L) ==
    IF L.input = <<>> THEN [L EXCEPT !.sawEof = TRUE]
    ELSE IF Head(L.input) = "\n" THEN [L EXCEPT !.input = Tail(L.input)]
    ELSE Getline([L EXCEPT !.input = Tail(L.input)])

RECURSIVE IgnoreSpaces(_)
IgnoreSpaces(L) ==
    IF Peek(L) = " " THEN IgnoreSpaces(Skip(L)) ELSE Touch(L)

RECURSIVE IgnoreInitialComments(_)
IgnoreInitialComments(L) ==
    LET L1 == IgnoreSpaces(L) IN
    IF Peek(L1) # "#" THEN L1
    ELSE IgnoreInitialComments(Getline(L1))

RECURSIVE CountSpaces(_)
CountSpaces(s) ==
    IF s # <<>> /\ Head(s) = " " THEN 1 + CountSpaces(Tail(s)) ELSE 0

RECURSIVE DropSpaces(_)
DropSpaces(s) ==
    IF s # <<>> /\ Head(s) = " " THEN DropSpaces(Tail(s)) ELSE s

RECURSIVE IgnoreEmptyRawsAndComments(_)
\* A variant that checks the parity of the spaces before it looks at what
\* follows them, so that blank and comment-only lines are checked too.
IgnoreEmptyRawsParityFirst(L) ==
    LET count_spaces == CountSpaces(L.input)
        L1 == Touch([L EXCEPT !.input = DropSpaces(L.input)])
    IN  IF count_spaces % 2 = 1 THEN LexerError(L1, "invalid indent")
        ELSE IF Peek(L1) = "\n" THEN IgnoreEmptyRawsAndComments(Skip(L1))
        ELSE IF Peek(L1) = "#" THEN IgnoreEmptyRawsAndComments(Getline(L1))
        ELSE [L1 EXCEPT !.diff = (count_spaces \div 2) - L1.indent,
                        !.indent = count_spaces \div 2]

IgnoreEmptyRawsAndComments(L) ==
    LET count_spaces == CountSpaces(L.input)
        L1 == Touch([L EXCEPT !.input = DropSpaces(L.input)])
    IN  IF Peek(L1) = "\n" THEN IgnoreEmptyRawsAndComments(Skip(L1))
        ELSE IF Peek(L1) = "#" THEN IgnoreEmptyRawsAndComments(Getline(L1))
        ELSE IF count_spaces % 2 = 1 THEN LexerError(L1, "invalid indent")
        ELSE [L1 EXCEPT !.diff = (count_spaces \div 2) - L1.indent,
                        !.indent = count_spaces \div 2]

ParseIndentOrDedent(L) ==
    IF L.diff > 0 THEN [L EXCEPT !.diff = L.diff - 1, !.cur = IndentTok]
    ELSE IF L.diff < 0 THEN [L EXCEPT !.diff = L.diff + 1, !.cur = DedentTok]
    ELSE LexerError(L, "no indent or dedent")

\* The length of the run of characters of set S at the head of s.
RECURSIVE RunLen(_, _)
RunLen(s, S) ==
    IF s # <<>> /\ Head(s) \in S THEN 1 + RunLen(Tail(s), S) ELSE 0

RECURSIVE Concat(_)
Concat(s) == IF s = <<>> THEN "" ELSE Head(s) \o Concat(Tail(s))

\* The largest int: std::stoi throws std::out_of_range above it.
INT_MAX == 2147483647

\* std::stoi on a digit run: its value, or -1 when it exceeds INT_MAX
\* (acc is the value of the digits read so far).
RECURSIVE Stoi(_, _)
Stoi(s, acc) ==
    IF s = <<>> THEN acc
    ELSE LET d == DigitVal(Head(s)) IN
         IF acc > INT_MAX \div 10 \/ (acc = INT_MAX \div 10 /\ d > INT_MAX % 10)
         THEN -1
         ELSE Stoi(Tail(s), 10 * acc + d)

ParseNumber(L) ==
    IF ~IsDigit(Peek(L)) THEN LexerError(Skip(L), "expected number")
    ELSE
      LET n      == RunLen(L.input, Digits)
          number == SubSeq(L.input, 1, n)
          after  == [L EXCEPT !.input = SubSeq(L.input, n + 1, Len(L.input))]
          c      == Peek(after)
          L1     == Skip(after)
      IN  IF c # " " /\ c # "\n" /\ c # EOF /\ c \notin special_symbols
          THEN LexerError(L1,
                 "expected space or new line or end of file or special symbol")
          ELSE IF Stoi(number, 0) = -1
          THEN Throw(Putback(L1, c), "std::out_of_range", "stoi")
          ELSE [Putback(L1, c) EXCEPT !.cur = NumberTok(Stoi(number, 0))]

\* c == '_' || isdigit(c) || isalpha(c)
IdentCont == {"_"} \cup Digits \cup Letters

ParseName(L) ==
    IF ~(IsAlpha(Peek(L)) \/ Peek(L) = "_")
    THEN LexerError(Skip(L), "invalid keyword or id")
    ELSE
      LET n     == 1 + RunLen(Tail(L.input), IdentCont)
          name  == Concat(SubSeq(L.input, 1, n))
          after == [L EXCEPT !.input = SubSeq(L.input, n + 1, Len(L.input))]
          c     == Peek(after)
          L1    == Putback(Skip(after), c)
      IN  IF name \in Keywords THEN [L1 EXCEPT !.cur = keyword_to_token(name)]
          ELSE [L1 EXCEPT !.cur = IdTok(name)]

RECURSIVE StringBody(_, _, _)
\* The loop of ParseStringConstant: str so far, the rest of the stream.
StringBody(L, quote, str) ==
    IF Peek(L) = EOF THEN LexerError(Touch(L), "expected closing quote")
    ELSE
      LET c  == Peek(L)
          L1 == Skip(L)
      IN  IF c # quote /\ c # "\\" THEN StringBody(L1, quote, str \o c)
          ELSE IF c = "\\"
          THEN LET e  == Peek(L1)
                   L2 == Skip(L1)
               IN  IF e = "t" THEN StringBody(L2, quote, str \o "\t")
                   ELSE IF e = "n" THEN StringBody(L2, quote, str \o "\n")
                   ELSE IF e = EOF THEN LexerError(L2, "expected closing quote")
                   ELSE StringBody(L2, quote, str \o e)
          ELSE [L1 EXCEPT !.cur = StringTok(str)]

ParseStringConstant(L) ==
    IF Peek(L) # "'" /\ Peek(L) # "\""
    THEN LexerError(Skip(L), "expected opening qoute")
    ELSE StringBody(Skip(L), Peek(L), "")

ParseComparisonOperand(L) ==
    LET a  == Peek(L)
        L1 == Skip(L)
        b  == Peek(L1)
        L2 == Skip(L1)
    IN  IF a = "=" /\ b = "=" THEN [L2 EXCEPT !.cur = Tok("Eq")]
        ELSE IF a = "!" /\ b = "=" THEN [L2 EXCEPT !.cur = Tok("NotEq")]
        ELSE IF a = "<" /\ b = "=" THEN [L2 EXCEPT !.cur = Tok("LessOrEq")]
        ELSE IF a = ">" /\ b = "=" THEN [L2 EXCEPT !.cur = Tok("GreaterOrEq")]
        ELSE LexerError(L2, "expected comparison operand")

RECURSIVE NextToken(_)
\* Lines 94-161 of NextToken: what it does when the current token is not Eof.
Tokenize(L) ==
    LET L1 == IF TokenEq(L.cur, NewlineTok)
              THEN IgnoreEmptyRawsAndComments(L) ELSE L
    IN
    IF L1.err # "" THEN L1
    ELSE IF L1.diff # 0 THEN ParseIndentOrDedent(L1)
    ELSE
      LET L2 == IgnoreSpaces(L1)
          c  == Peek(L2)
          L3 == Skip(L2)          \* char c = input_.get()
          \* L3 once input_.peek() has been evaluated in a condition on c
          Lp == IF c \in comparison_symbols THEN Touch(L3) ELSE L3
      IN  IF IsDigit(c) THEN ParseNumber(L2)
          ELSE IF c = "'" \/ c = "\"" THEN ParseStringConstant(L2)
          ELSE IF c = EOF
          THEN IF \/ TokenEq(L3.cur, NewlineTok) \/ TokenEq(L3.cur, IndentTok)
                  \/ TokenEq(L3.cur, DedentTok)
               THEN [L3 EXCEPT !.cur = EofTok]
               ELSE [L3 EXCEPT !.cur = NewlineTok]
          ELSE IF c = "\n" THEN [L3 EXCEPT !.cur = NewlineTok]
          ELSE IF c = "#"
          THEN LET L4 == IgnoreEmptyRawsAndComments(Getline(L3))
                   L5 == Touch(L4)
                   c2 == Peek(L4)
               IN  IF L4.err # "" THEN L4
                   ELSE IF c2 = "#"
                   THEN LET L6 == NextToken(L5) IN L6
                   ELSE IF c2 = EOF THEN [L5 EXCEPT !.cur = EofTok]
                   ELSE [L5 EXCEPT !.cur = NewlineTok]
          ELSE IF c = "=" /\ Peek(L3) # "=" THEN [Lp EXCEPT !.cur = CharTok("=")]
          ELSE IF c \in comparison_symbols /\ Peek(L3) = "="
          THEN ParseComparisonOperand(L2)
          ELSE IF c \in special_symbols THEN [Lp EXCEPT !.cur = CharTok(c)]
          ELSE IF IsAlpha(c) \/ c = "_" THEN ParseName(L2)
          ELSE LexerError(Lp, "parsing error")

\* A variant without the early return on a current Eof token.
NextTokenNoEofGuard(L) == Tokenize(L)

\* Lexer::NextToken.  The token it returns is the new current token.
NextToken(L) ==
    IF TokenEq(L.cur, EofTok) THEN L ELSE Tokenize(L)

\* Lexer::Lexer(std::istream&)
Construct(L) ==
    LET L1 == IgnoreInitialComments(L)
        L2 == NextToken([L1 EXCEPT !.cur = NewlineTok, !.built = TRUE])
    IN  IF L2.err # "" THEN [L2 EXCEPT !.built = FALSE] ELSE L2

----------------------------------------------------------------------------
(***************************************************************************)
(* The lexer machine.  A stream is supplied a line at a time, and only     *)
(* when the lexer's next call would read past what the stream holds: the   *)
(* lexer reads one character at a time, so this reaches every input of at  *)
(* most MaxLines lines.  `plain` lexes the same statements without the     *)
(* blank and comment-only lines that stand between two statements.         *)
(***************************************************************************)
Spaces(k) == [i \in 1..k |-> " "]

\* A statement (a name), alone or followed by a comment.
CodeBodies == {<<"a">>, <<"a", " ", "#", "b">>}
\* A blank line and comment-only lines.
JunkBodies == {<<>>, <<"#", "b">>}

Line(k, body, nl) == Spaces(k) \o body \o (IF nl THEN <<"\n">> ELSE <<>>)

NoChk == [valid |-> FALSE, first |-> FALSE, from |-> 0, to |-> 0,
          ind |-> 0, ded |-> 0, junk |-> 0]

LayoutTypes == {"Newline", "Indent", "Dedent", "Eof"}

\* The watch after lexer L has returned from a call.
Watched(w, L) ==
    IF L.err # "" \/ ~L.built THEN [w EXCEPT !.chk = NoChk]
    ELSE IF w.atEof
    THEN [w EXCEPT !.chk = NoChk, !.eofCalls = IF @ < 2 THEN @ + 1 ELSE @]
    ELSE IF L.cur.type = "Eof" THEN [w EXCEPT !.chk = NoChk, !.atEof = TRUE]
    ELSE IF L.cur.type = "Indent"
    THEN [w EXCEPT !.nInd = w.nInd + 1, !.chk = NoChk]
    ELSE IF L.cur.type = "Dedent"
    THEN [w EXCEPT !.nDed = w.nDed + 1, !.chk = NoChk]
    ELSE IF L.cur.type \notin LayoutTypes /\ ~w.started
    THEN [w EXCEPT !.started = TRUE, !.nInd = 0, !.nDed = 0, !.junk = 0,
                   !.chk = [valid |-> TRUE, first |-> (w.prev = -1),
                            from |-> w.prev, to |-> w.line,
                            ind |-> w.nInd, ded |-> w.nDed, junk |-> w.junk]]
    ELSE [w EXCEPT !.chk = NoChk]

\* The call NextToken on L gets past layout resolution and finds the end of
\* the input where a token would start (line 115).
AtEndOfInput(L) ==
    /\ L.built /\ L.err = "" /\ ~TokenEq(L.cur, EofTok)
    /\ \E L1 \in {IF TokenEq(L.cur, NewlineTok)
                   THEN IgnoreEmptyRawsAndComments(L) ELSE L} :
          L1.err = "" /\ L1.diff = 0 /\ Peek(IgnoreSpaces(L1)) = EOF

\* The watch after the call that took lexer L to L2: also the Indent tokens
\* returned so far less the Dedent tokens (open), whether a Newline has
\* been returned for the end of the input (synth), and the Newline tokens
\* returned since the first token of the line (nNl; nls is their number
\* between the first tokens of the last two lines).  cmt and pcmt tell
\* whether the line, and the line before it, end in a comment.
Noted(w, L, L2) ==
    IF L2.err # "" \/ ~L2.built \/ w.atEof THEN Watched(w, L2)
    ELSE [Watched(w, L2) EXCEPT
            !.open = IF L2.cur.type = "Indent" THEN @ + 1
                     ELSE IF L2.cur.type = "Dedent" THEN @ - 1 ELSE @,
            !.synth = @ \/ (AtEndOfInput(L) /\ L2.cur.type = "Newline"),
            !.nNl = IF L2.cur.type = "Newline" THEN @ + 1
                    ELSE IF Watched(w, L2).chk.valid THEN 0 ELSE @,
            !.nls = IF Watched(w, L2).chk.valid THEN w.nNl ELSE @]

Fresh(L) == [L EXCEPT !.sawEof = FALSE]
\* The next call on lexer L: its constructor, then NextToken.
LexerCall(L) == IF L.built THEN NextToken(Fresh(L)) ELSE Construct(Fresh(L))
\* The call would read past the end of a stream that is still being supplied.
Starved(L) == ~source.closed /\ LexerCall(L).sawEof

Give(L, chars) == [L EXCEPT !.input = L.input \o chars]

FeedCode(k, body, nl) ==
    /\ ~source.closed /\ source.fed < MaxLines
    /\ lexer.err = "" /\ Starved(lexer) /\ watch.started
    /\ lexer' = Give(lexer, Line(k, body, nl))
    /\ plain' = Give(plain, Line(k, body, nl))
    /\ source' = [closed |-> ~nl, fed |-> source.fed + 1, held |-> <<>>,
                  junk |-> 0]
    /\ watch' = [watch EXCEPT !.prev = watch.line, !.line = k,
                              !.started = FALSE, !.chk = NoChk,
                              !.pcmt = watch.cmt,
                              !.cmt = \E i \in 1..Len(body) : body[i] = "#"]
    /\ UNCHANGED evalVars

FeedJunk(k, body, nl) ==
    /\ ~source.closed /\ source.fed < MaxLines /\ source.junk < MaxJunk
    /\ lexer.err = "" /\ Starved(lexer)
    /\ lexer' = Give(lexer, Line(k, body, nl))
    /\ IF watch.line # -1 /\ nl
       THEN /\ plain' = plain
            /\ source' = [source EXCEPT !.fed = source.fed + 1,
                                        !.junk = source.junk + 1,
                                        !.held = source.held \o Line(k, body, nl)]
            /\ watch' = [watch EXCEPT !.junk = watch.junk + 1, !.chk = NoChk]
       ELSE /\ plain' = Give(plain, source.held \o Line(k, body, nl))
            /\ source' = [closed |-> ~nl, fed |-> source.fed + 1,
                          held |-> <<>>, junk |-> source.junk + 1]
            /\ watch' = [watch EXCEPT !.junk = 0, !.chk = NoChk]
    /\ UNCHANGED evalVars

Close ==
    /\ ~source.closed
    /\ lexer.err = "" /\ Starved(lexer)
    /\ lexer' = lexer
    /\ plain' = Give(plain, source.held)
    /\ source' = [source EXCEPT !.closed = TRUE, !.held = <<>>]
    /\ watch' = [watch EXCEPT !.junk = 0, !.chk = NoChk]
    /\ UNCHANGED evalVars

\* Lexer::Lexer on both streams.
Build ==
    /\ ~lexer.built /\ lexer.err = "" /\ ~Starved(lexer)
    /\ lexer' = LexerCall(lexer)
    /\ plain' = LexerCall(plain)
    /\ watch' = Noted(watch, lexer, lexer')
    /\ UNCHANGED <<source, evalVars>>

\* Lexer::NextToken on both lexers.
Advance ==
    /\ lexer.built /\ lexer.err = "" /\ ~Starved(lexer)
    /\ lexer' = LexerCall(lexer)
    /\ plain' = IF plain.built /\ plain.err = "" THEN LexerCall(plain) ELSE plain
    /\ watch' = Noted(watch, lexer, lexer')
    /\ UNCHANGED <<source, evalVars>>

InitLex ==
    /\ lexer = NewLexer
    /\ plain = NewLexer
    /\ source = [closed |-> FALSE, fed |-> 0, held |-> <<>>, junk |-> 0]
    /\ watch = [prev |-> -1, line |-> -1, started |-> TRUE, nInd |-> 0,
                nDed |-> 0, junk |-> 0, chk |-> NoChk, atEof |-> FALSE,
                eofCalls |-> 0, open |-> 0, synth |-> FALSE, cmt |-> FALSE,
                pcmt |-> FALSE, nNl |-> 0, nls |-> 0]
    /\ classes = <<>>
    /\ closure = <<>>
    /\ heap = <<>>
    /\ output = <<>>
    /\ outcome = <<>>
    /\ steps = 0

NextLex ==
    \/ \E k \in 0..MaxSpaces, body \in CodeBodies, nl \in BOOLEAN :
          FeedCode(k, body, nl)
    \/ \E k \in 0..MaxSpaces, body \in JunkBodies, nl \in BOOLEAN :
          FeedJunk(k, body, nl)
    \/ Close
    \/ Build
    \/ Advance

SpecLex == InitLex /\ [][NextLex]_vars

(***************************************************************************)
(* The lexer on a stream that starts with a run of digits: the run is      *)
(* typed digit by digit, ended by the character that follows it (or by the *)
(* end of the stream), and then lexed.  source.held keeps the text.        *)
(***************************************************************************)
MaxDigits == 10

\* One more digit of the run.
TypeDigit(d) ==
    /\ ~source.closed /\ Len(source.held) < MaxDigits
    /\ lexer' = Give(lexer, <<d>>)
    /\ source' = [source EXCEPT !.held = source.held \o <<d>>]
    /\ UNCHANGED <<plain, watch, evalVars>>

\* The characters after the run (none: the stream ends with the run).
EndRun(rest) ==
    /\ ~source.closed /\ Len(source.held) >= 1
    /\ lexer' = Give(lexer, rest)
    /\ source' = [source EXCEPT !.held = source.held \o rest, !.closed = TRUE]
    /\ UNCHANGED <<plain, watch, evalVars>>

\* Lexer::Lexer on the stream: its first token is the number.
LexNumber ==
    /\ source.closed /\ ~lexer.built /\ lexer.err = ""
    /\ lexer' = Construct(Fresh(lexer))
    /\ UNCHANGED <<plain, source, watch, evalVars>>

InitNum ==
    /\ lexer = NewLexer
    /\ plain = NewLexer
    /\ source = [closed |-> FALSE, fed |-> 0, held |-> <<>>, junk |-> 0]
    /\ watch = [prev |-> -1, line |-> -1, started |-> TRUE, nInd |-> 0,
                nDed |-> 0, junk |-> 0, chk |-> NoChk, atEof |-> FALSE,
                eofCalls |-> 0, open |-> 0, synth |-> FALSE, cmt |-> FALSE,
                pcmt |-> FALSE, nNl |-> 0, nls |-> 0]
    /\ classes = <<>>
    /\ closure = <<>>
    /\ heap = <<>>
    /\ output = <<>>
    /\ outcome = <<>>
    /\ steps = 0

NextNum ==
    \/ \E d \in {"0", "9"} : TypeDigit(d)
    \/ \E rest \in {<<>>, <<" ">>, <<"\n">>, <<"+">>, <<")">>, <<"a">>,
                    <<"_">>, <<"'">>, <<"#">>} : EndRun(rest)
    \/ LexNumber

SpecNum == InitNum /\ [][NextNum]_vars

----------------------------------------------------------------------------
(***************************************************************************)
(*                     THE RUNTIME: VALUES AND CLASSES                     *)
(***************************************************************************)

(***************************************************************************)
(* An ObjectHolder is modelled by what it refers to.  Number, String and   *)
(* Bool objects are immutable and are modelled by their content; a Class   *)
(* by its position in the class table; a ClassInstance by its position in  *)
(* the heap, together with whether the handle owns it (Own) or is the      *)
(* non-owning alias made by Share.  The empty holder is None.              *)
(***************************************************************************)
None         == [t |-> "None"]
Number(n)    == [t |-> "Number", n |-> n]
String(s)    == [t |-> "String", s |-> s]
Bool(b)      == [t |-> "Bool", b |-> b]
ClassRef(c)  == [t |-> "Class", c |-> c]
Own(id)      == [t |-> "Instance", id |-> id, own |-> TRUE]
Share(id)    == [t |-> "Instance", id |-> id, own |-> FALSE]

\* ObjectHolder::operator bool
NonEmpty(h) == h.t # "None"
\* ObjectHolder::Get() of two holders compared: the same object.
SameObject(h, id) == h.t = "Instance" /\ h.id = id

\* A Closure (std::map from name to ObjectHolder).
EmptyClosure == [x \in {} |-> None]
Has(m, k)    == k \in DOMAIN m
\* closure[k] = v
Put(m, k, v) == [x \in (DOMAIN m) \cup {k} |-> IF x = k THEN v ELSE m[x]]

IsTrue(object) ==
    IF ~NonEmpty(object) THEN FALSE
    ELSE IF object.t = "Bool" THEN object.b
    ELSE IF object.t = "Number" THEN object.n # 0
    ELSE IF object.t = "String" THEN object.s # ""
    ELSE FALSE

(***************************************************************************)
(* The class table.  A Class holds its name, its methods, the index        *)
(* name_to_method_index_ and its parent (0 when it has none).  A Method    *)
(* is [name, formal_params, body].                                         *)
(***************************************************************************)
RECURSIVE BuildIndex(_, _, _)
\* The constructor's loop: name_to_method_index_[methods_[i].name] = i.
BuildIndex(methods, i, index) ==
    IF i > Len(methods) THEN index
    ELSE BuildIndex(methods, i + 1, Put(index, methods[i].name, i))

\* Class::Class
ClassCtor(name, methods, parent) ==
    [name |-> name, methods |-> methods, parent |-> parent,
     index |-> BuildIndex(methods, 1, EmptyClosure)]

\* The absent method (a null Method pointer).
NoMethod == [name |-> "", formal_params |-> <<>>, body |-> [kind |-> "null"],
             cls |-> 0, pos |-> 0]
\* A pointer to the method at position pos of class c.
MethodPtr(table, c, pos) ==
    [name |-> table[c].methods[pos].name,
     formal_params |-> table[c].methods[pos].formal_params,
     body |-> table[c].methods[pos].body, cls |-> c, pos |-> pos]

RECURSIVE GetMethodParentFirst(_, _, _)
RECURSIVE GetMethod(_, _, _)
\* A variant that asks the parent chain before the class itself.
GetMethodParentFirst(table, c, name) ==
    LET up == IF table[c].parent # 0
              THEN GetMethodParentFirst(table, table[c].parent, name)
              ELSE NoMethod
    IN  IF up # NoMethod THEN up
        ELSE IF Has(table[c].index, name)
        THEN MethodPtr(table, c, table[c].index[name])
        ELSE NoMethod

\* Class::GetMethod
GetMethod(table, c, name) ==
    IF Has(table[c].index, name)
    THEN MethodPtr(table, c, table[c].index[name])
    ELSE IF table[c].parent # 0 THEN GetMethod(table, table[c].parent, name)
    ELSE NoMethod

\* ClassInstance::HasMethod, on an instance of class c.
HasMethod(table, c, method, argument_count) ==
    LET method_ptr == GetMethod(table, c, method)
    IN  method_ptr # NoMethod /\ Len(method_ptr.formal_params) = argument_count

----------------------------------------------------------------------------
(***************************************************************************)
(*                            THE EVALUATOR                                *)
(***************************************************************************)

\* The statement nodes of the AST.
NullStmt                 == [kind |-> "null"]
Const(v)                 == [kind |-> "Const", v |-> v]
Assignment(var, rv)      == [kind |-> "Assignment", var |-> var, rv |-> rv]
VariableValue(ids)       == [kind |-> "VariableValue", ids |-> ids]
PrintStmt(args)          == [kind |-> "Print", args |-> args]
MethodCall(object, method, args) ==
    [kind |-> "MethodCall", object |-> object, method |-> method, args |-> args]
Stringify(argument)      == [kind |-> "Stringify", argument |-> argument]
Add(lhs, rhs)            == [kind |-> "Add", lhs |-> lhs, rhs |-> rhs]
Sub(lhs, rhs)            == [kind |-> "Sub", lhs |-> lhs, rhs |-> rhs]
Mult(lhs, rhs)           == [kind |-> "Mult", lhs |-> lhs, rhs |-> rhs]
Div(lhs, rhs)            == [kind |-> "Div", lhs |-> lhs, rhs |-> rhs]
Compound(statements)     == [kind |-> "Compound", statements |-> statements]
Return(statement)        == [kind |-> "Return", statement |-> statement]
ClassDefinition(cls)     == [kind |-> "ClassDefinition", cls |-> cls]
FieldAssignment(object, field_name, rv) ==
    [kind |-> "FieldAssignment", object |-> object,
     field_name |-> field_name, rv |-> rv]
IfElse(condition, if_body, else_body) ==
    [kind |-> "IfElse", condition |-> condition, if_body |-> if_body,
     else_body |-> else_body]
Or(lhs, rhs)             == [kind |-> "Or", lhs |-> lhs, rhs |-> rhs]
And(lhs, rhs)            == [kind |-> "And", lhs |-> lhs, rhs |-> rhs]
Not(argument)            == [kind |-> "Not", argument |-> argument]
Comparison(cmp, lhs, rhs) ==
    [kind |-> "Comparison", cmp |-> cmp, lhs |-> lhs, rhs |-> rhs]
NewInstance(class, args) == [kind |-> "NewInstance", class |-> class, args |-> args]
MethodBody(body)         == [kind |-> "MethodBody", body |-> body]

(***************************************************************************)
(* An execution state: the scope the node runs in (closure), the           *)
(* ClassInstance objects (heap), the context's output stream (out), the    *)
(* message of a thrown exception (err, "" when none), the holder the node  *)
(* returned (val), and the class table.  f names the scope (0 the scope    *)
(* the run started in, then one number per ClassInstance::Call), nf counts *)
(* the scopes made, rtl is the order in which the build evaluates the      *)
(* arguments of a function call, intact is whether freed memory still      *)
(* reads as the object it held, and log lists what ran: entering and       *)
(* leaving a node, binding and reading a scope key, entering a call.       *)
(***************************************************************************)
Event(st, path, k, e, key, v, keys) ==
    [f |-> st.f, path |-> path, k |-> k, e |-> e, key |-> key, v |-> v,
     keys |-> keys]
Note(st, path, k, e, key, v, keys) ==
    [st EXCEPT !.log = Append(st.log, Event(st, path, k, e, key, v, keys))]

Fail(st, msg) == [st EXCEPT !.err = msg, !.val = None]
\* Dereferencing the null pointer TryAs returned: undefined behaviour,
\* which ends the run.
NullDeref(st) == Fail(st, "UB: null pointer dereference")

Ret(st, v) == [st EXCEPT !.val = v]

\* Integer division as C++ does it (truncation toward zero).
TruncDiv(a, b) ==
    IF (a >= 0) = (b > 0) THEN (IF a >= 0 THEN a ELSE -a) \div (IF b > 0 THEN b ELSE -b)
    ELSE -((IF a >= 0 THEN a ELSE -a) \div (IF b > 0 THEN b ELSE -b))

\* The rest of a function body, K, run on what a call made in it returned;
\* when that call threw, the exception leaves the function at once.
Then(r, K(_)) == IF r.err # "" THEN r ELSE K(r)
\* A local variable v of a function body, and the rest of the body, K.
Local(v, K(_)) == K(v)

RECURSIVE Execute(_, _, _)
RECURSIVE Call(_, _, _, _)
RECURSIVE ExecArgs(_, _, _, _, _)
RECURSIVE PrintObject(_, _)
RECURSIVE PrintArgs(_, _, _, _)
RECURSIVE ExecStatements(_, _, _, _)
RECURSIVE ReadFields(_, _, _, _)
RECURSIVE BindParams(_, _, _, _)

\* for (i...) closure[method_ptr->formal_params[i]] = actual_args[i];
BindParams(closure_, formal_params, actual_args, i) ==
    IF i > Len(actual_args) THEN closure_
    ELSE BindParams(Put(closure_, formal_params[i], actual_args[i]),
                    formal_params, actual_args, i + 1)

\* The place of a method's body among the nodes of the program.
BodyPath(method_ptr) == <<0 - method_ptr.cls, method_ptr.pos>>
\* The state in which a method body starts: a new scope, closure_.
Enter(st, closure_, method_ptr, id) ==
    Note([st EXCEPT !.closure = closure_, !.f = st.nf + 1, !.nf = st.nf + 1],
         BodyPath(method_ptr), "Call", "call", method_ptr.name, Share(id),
         DOMAIN closure_)
\* The state r back in the caller st: the scope of the call is gone.
Leave(r, st) == [r EXCEPT !.closure = st.closure, !.f = st.f]

\* A variant of ClassInstance::Call whose scope starts as a copy of the
\* caller's scope.
CallInheritingScope(id, method, actual_args, st) ==
    IF ~HasMethod(st.classes, st.heap[id].cls, method, Len(actual_args))
    THEN Fail(st, "method not found")
    ELSE
      Local(GetMethod(st.classes, st.heap[id].cls, method), LAMBDA method_ptr :
      Local(BindParams(Put(st.closure, "self", Share(id)),
                       method_ptr.formal_params, actual_args, 1), LAMBDA closure_ :
      Local(Execute(method_ptr.body, Enter(st, closure_, method_ptr, id),
                    BodyPath(method_ptr)), LAMBDA result :
        IF result.err # "" THEN Leave(result, st)
        ELSE IF ~SameObject(result.closure["self"], id)
        THEN Ret(Leave(result, st), result.closure["self"])
        ELSE Leave(result, st))))

\* A variant of ClassInstance::Call that looks the method up by name only.
CallAnyArity(id, method, actual_args, st) ==
    IF GetMethod(st.classes, st.heap[id].cls, method) = NoMethod
    THEN Fail(st, "method not found")
    ELSE
      Local(GetMethod(st.classes, st.heap[id].cls, method), LAMBDA method_ptr :
      Local(BindParams(Put(EmptyClosure, "self", Share(id)),
                       method_ptr.formal_params, actual_args, 1), LAMBDA closure_ :
      Local(Execute(method_ptr.body, Enter(st, closure_, method_ptr, id),
                    BodyPath(method_ptr)), LAMBDA result :
        IF result.err # "" THEN Leave(result, st)
        ELSE IF ~SameObject(result.closure["self"], id)
        THEN Ret(Leave(result, st), result.closure["self"])
        ELSE Leave(result, st))))

\* A variant of ClassInstance::Call that returns the body's result whatever
\* self is bound to afterwards.
CallBodyResult(id, method, actual_args, st) ==
    IF ~HasMethod(st.classes, st.heap[id].cls, method, Len(actual_args))
    THEN Fail(st, "method not found")
    ELSE
      Local(GetMethod(st.classes, st.heap[id].cls, method), LAMBDA method_ptr :
      Local(BindParams(Put(EmptyClosure, "self", Share(id)),
                       method_ptr.formal_params, actual_args, 1), LAMBDA closure_ :
      Local(Execute(method_ptr.body, Enter(st, closure_, method_ptr, id),
                    BodyPath(method_ptr)), LAMBDA result :
        Leave(result, st))))

\* ClassInstance::Call, on the instance at heap position id.
Call(id, method, actual_args, st) ==
    IF ~HasMethod(st.classes, st.heap[id].cls, method, Len(actual_args))
    THEN Fail(st, "method not found")
    ELSE
      Local(GetMethod(st.classes, st.heap[id].cls, method), LAMBDA method_ptr :
      Local(BindParams(Put(EmptyClosure, "self", Share(id)),
                       method_ptr.formal_params, actual_args, 1), LAMBDA closure_ :
      Local(Execute(method_ptr.body, Enter(st, closure_, method_ptr, id),
                    BodyPath(method_ptr)), LAMBDA result :
        IF result.err # "" THEN Leave(result, st)
        ELSE IF ~SameObject(result.closure["self"], id)
        THEN Ret(Leave(result, st), result.closure["self"])
        ELSE Leave(result, st))))

\* Object::Print of the object h refers to: the state after it, and the
\* text it wrote to the stream it was given.
PrintObject(h, st) ==
    IF h.t = "Number" THEN [st |-> st, text |-> ToString(h.n)]
    ELSE IF h.t = "String" THEN [st |-> st, text |-> h.s]
    ELSE IF h.t = "Bool" THEN [st |-> st, text |-> IF h.b THEN "True" ELSE "False"]
    ELSE IF h.t = "Class" THEN [st |-> st, text |-> "Class " \o st.classes[h.c].name]
    ELSE \* ClassInstance::Print
      IF GetMethod(st.classes, st.heap[h.id].cls, "__str__") # NoMethod
      THEN Local(Call(h.id, "__str__", <<>>, st), LAMBDA r :
             IF r.err # "" THEN [st |-> r, text |-> ""]
             ELSE IF r.val.t # "String" THEN [st |-> NullDeref(r), text |-> ""]
             ELSE [st |-> r, text |-> r.val.s])
      ELSE [st |-> st, text |-> "<object " \o ToString(h.id) \o ">"]

\* The argument loops of MethodCall and NewInstance from position i on:
\* the state after them, and the holders collected.
ExecArgs(args, i, st, path, acc) ==
    IF i > Len(args) \/ st.err # "" THEN [st |-> st, vals |-> acc]
    ELSE Local(Execute(args[i], st, Append(path, i)), LAMBDA r :
           ExecArgs(args, i + 1, r, path, Append(acc, r.val)))

\* A variant of the loop of Print::Execute that writes the separator after
\* every argument, the last one included.
PrintArgsTrailingSpace(args, i, st, path) ==
    IF i > Len(args) THEN st
    ELSE
      Then(Execute(args[i], st, Append(path, i)), LAMBDA tmp :
      Local(IF NonEmpty(tmp.val) THEN PrintObject(tmp.val, tmp)
            ELSE [st |-> tmp, text |-> "None"], LAMBDA p :
        IF p.st.err # "" THEN p.st
        ELSE PrintArgs(args, i + 1,
               [p.st EXCEPT !.out = p.st.out \o p.text \o " "], path)))

\* The loop of Print::Execute from argument i on.
PrintArgs(args, i, st, path) ==
    IF i > Len(args) THEN st
    ELSE
      Then(Execute(args[i], st, Append(path, i)), LAMBDA tmp :
      Local(IF NonEmpty(tmp.val) THEN PrintObject(tmp.val, tmp)
            ELSE [st |-> tmp, text |-> "None"], LAMBDA p :
        IF p.st.err # "" THEN p.st
        ELSE PrintArgs(args, i + 1,
               [p.st EXCEPT !.out = p.st.out \o p.text
                                      \o (IF i # Len(args) THEN " " ELSE "")],
               path)))

\* closure.count("returned_value"), made by the node k at path.
Counts(st, path, k) ==
    Note(st, path, k, "read", "returned_value", None, {})

\* A variant of the loop of Compound::Execute that never looks at the scope.
ExecStatementsNoCheck(statements, i, st, path) ==
    IF i > Len(statements) THEN Ret(st, None)
    ELSE Then(Execute(statements[i], st, Append(path, i)), LAMBDA r :
           ExecStatements(statements, i + 1, r, path))

\* The loop of Compound::Execute from statement i on.
ExecStatements(statements, i, st, path) ==
    IF i > Len(statements) THEN Ret(st, None)
    ELSE Then(Execute(statements[i], st, Append(path, i)), LAMBDA r :
           IF Has(r.closure, "returned_value")
           THEN Ret(Counts(r, path, "Compound"), None)
           ELSE ExecStatements(statements, i + 1, Counts(r, path, "Compound"),
                               path))

\* tmp->Fields()[ids_[i]]: operator[] makes the entry when it is missing.
Subscript(fields, name) ==
    IF Has(fields, name) THEN fields ELSE Put(fields, name, None)

\* The loop of VariableValue::Execute from ids[i] on; object is the holder.
ReadFields(ids, i, object, st) ==
    IF i > Len(ids) THEN Ret(st, object)
    ELSE IF object.t = "Instance"
    THEN ReadFields(ids, i + 1,
                    Subscript(st.heap[object.id].fields, ids[i])[ids[i]],
                    [st EXCEPT !.heap[object.id].fields =
                                   Subscript(st.heap[object.id].fields, ids[i])])
    ELSE Fail(st, "unknown field " \o ids[i])

(***************************************************************************)
(* The comparators of runtime.cpp.  Each returns the state after it, with  *)
(* val the Bool it yields.                                                 *)
(***************************************************************************)
\* return !b, for the state r of a comparator that returned b.
Negated(r) == Ret(r, Bool(~r.val.b))
\* IsTrue(...) of what a call returned.
Truth(r) == Ret(r, Bool(IsTrue(r.val)))

\* A variant of Equal for which an empty holder is comparable with anything
\* (and equal to an empty holder only).
EqualNoneTolerant(lhs, rhs, st) ==
    IF ~NonEmpty(lhs) \/ ~NonEmpty(rhs)
    THEN Ret(st, Bool(~NonEmpty(lhs) /\ ~NonEmpty(rhs)))
    ELSE IF lhs.t = "String" /\ rhs.t = "String" THEN Ret(st, Bool(lhs.s = rhs.s))
    ELSE IF lhs.t = "Number" /\ rhs.t = "Number" THEN Ret(st, Bool(lhs.n = rhs.n))
    ELSE IF lhs.t = "Bool" /\ rhs.t = "Bool" THEN Ret(st, Bool(lhs.b = rhs.b))
    ELSE IF lhs.t = "Instance"
            /\ HasMethod(st.classes, st.heap[lhs.id].cls, "__eq__", 1)
    THEN Then(Call(lhs.id, "__eq__", <<rhs>>, st), Truth)
    ELSE Fail(st, "Cannot compare objects for equality")

Equal(lhs, rhs, st) ==
    IF ~NonEmpty(lhs) /\ ~NonEmpty(rhs) THEN Ret(st, Bool(TRUE))
    ELSE IF lhs.t = "String"
    THEN IF rhs.t = "String" THEN Ret(st, Bool(lhs.s = rhs.s))
         ELSE Fail(st, "Cannot compare objects for equality")
    ELSE IF lhs.t = "Number"
    THEN IF rhs.t = "Number" THEN Ret(st, Bool(lhs.n = rhs.n))
         ELSE Fail(st, "Cannot compare objects for equality")
    ELSE IF lhs.t = "Bool"
    THEN IF rhs.t = "Bool" THEN Ret(st, Bool(lhs.b = rhs.b))
         ELSE Fail(st, "Cannot compare objects for equality")
    ELSE IF lhs.t = "Instance"
            /\ HasMethod(st.classes, st.heap[lhs.id].cls, "__eq__", 1)
    THEN Then(Call(lhs.id, "__eq__", <<rhs>>, st), Truth)
    ELSE Fail(st, "Cannot compare objects for equality")

\* Strings of the model are ordered by this table (std::string operator<).
StringRank(str) ==
    CASE str = "" -> 0 [] str = "a" -> 1 [] str = "b" -> 2 [] OTHER -> 3

Less(lhs, rhs, st) ==
    IF lhs.t = "String"
    THEN IF rhs.t = "String"
         THEN Ret(st, Bool(StringRank(lhs.s) < StringRank(rhs.s)))
         ELSE Fail(st, "Cannot compare objects for less")
    ELSE IF lhs.t = "Number"
    THEN IF rhs.t = "Number" THEN Ret(st, Bool(lhs.n < rhs.n))
         ELSE Fail(st, "Cannot compare objects for less")
    ELSE IF lhs.t = "Bool"
    THEN IF rhs.t = "Bool" THEN Ret(st, Bool(~lhs.b /\ rhs.b))
         ELSE Fail(st, "Cannot compare objects for less")
    ELSE IF lhs.t = "Instance"
            /\ HasMethod(st.classes, st.heap[lhs.id].cls, "__lt__", 1)
    THEN Then(Call(lhs.id, "__lt__", <<rhs>>, st), Truth)
    ELSE Fail(st, "Cannot compare objects for less")

NotEqual(lhs, rhs, st) == Then(Equal(lhs, rhs, st), Negated)

\* A variant of Greater that is the negation of Less alone.
GreaterNotLess(lhs, rhs, st) == Then(Less(lhs, rhs, st), Negated)

\* !(Less(lhs, rhs) || Equal(lhs, rhs)): Equal runs only when Less is false.
Greater(lhs, rhs, st) ==
    Then(Less(lhs, rhs, st), LAMBDA l :
      IF l.val.b THEN Ret(l, Bool(FALSE))
      ELSE Then(Equal(lhs, rhs, l), Negated))

LessOrEqual(lhs, rhs, st) == Then(Greater(lhs, rhs, st), Negated)

GreaterOrEqual(lhs, rhs, st) == Then(Less(lhs, rhs, st), Negated)

Comparators ==
    {"Equal", "NotEqual", "Less", "Greater", "LessOrEqual", "GreaterOrEqual"}

\* cmp_(lhs, rhs, context)
Comparator(cmp, lhs, rhs, st) ==
    CASE cmp = "Equal"          -> Equal(lhs, rhs, st)
      [] cmp = "NotEqual"       -> NotEqual(lhs, rhs, st)
      [] cmp = "Less"           -> Less(lhs, rhs, st)
      [] cmp = "Greater"        -> Greater(lhs, rhs, st)
      [] cmp = "LessOrEqual"    -> LessOrEqual(lhs, rhs, st)
      [] cmp = "GreaterOrEqual" -> GreaterOrEqual(lhs, rhs, st)

(***************************************************************************)
(* Statement::Execute, one operator per node class.  Each takes the node,  *)
(* the state and the node's place in the tree.                             *)
(***************************************************************************)
\* closure[key] = r.val, made by the node k at path.
Bound(r, path, k, key) ==
    Note([r EXCEPT !.closure = Put(r.closure, key, r.val)],
         path, k, "bind", key, r.val, {})

ExecAssignment(node, st, path) ==
    Then(Execute(node.rv, st, Append(path, 1)), LAMBDA r :
      Bound(r, path, "Assignment", node.var))

ExecVariableValue(node, st, path) ==
    IF ~Has(st.closure, node.ids[1])
    THEN Fail(Note(st, path, "VariableValue", "read", node.ids[1], None, {}),
              "unknown variable " \o node.ids[1])
    ELSE ReadFields(node.ids, 2, st.closure[node.ids[1]],
                    Note(st, path, "VariableValue", "read", node.ids[1], None, {}))

ExecPrint(node, st, path) ==
    Then(PrintArgs(node.args, 1, st, path), LAMBDA r :
      Ret([r EXCEPT !.out = r.out \o "\n"], None))

ExecMethodCall(node, st, path) ==
    Local(ExecArgs(node.args, 1, st, Append(path, 2), <<>>), LAMBDA actual_args :
      IF actual_args.st.err # "" THEN actual_args.st
      ELSE Then(Execute(node.object, actual_args.st, Append(path, 1)), LAMBDA o :
             IF o.val.t # "Instance" THEN NullDeref(o)
             ELSE Call(o.val.id, node.method, actual_args.vals, o)))

\* ->Print(out, context) on the holder h, then String(out.str()).
Printed(h, st) ==
    IF ~NonEmpty(h) THEN NullDeref(st)
    ELSE Local(PrintObject(h, st), LAMBDA p :
           IF p.st.err # "" THEN p.st ELSE Ret(p.st, String(p.text)))

ExecStringify(node, st, path) ==
    Then(Execute(node.argument, st, Append(path, 1)), LAMBDA object :
      IF ~NonEmpty(object.val) THEN Ret(object, String("None"))
      ELSE IF object.val.t = "Instance"
              /\ HasMethod(object.classes, object.heap[object.val.id].cls,
                           "__str__", 0)
      THEN Then(Call(object.val.id, "__str__", <<>>, object), LAMBDA c :
             Printed(c.val, c))
      ELSE Printed(object.val, object))

ExecAdd(node, st, path) ==
    Then(Execute(node.lhs, st, Append(path, 1)), LAMBDA left :
    Then(Execute(node.rhs, left, Append(path, 2)), LAMBDA right :
      IF left.val.t = "Number"
      THEN IF right.val.t = "Number"
           THEN Ret(right, Number(left.val.n + right.val.n))
           ELSE Fail(right, "invalid add operation")
      ELSE IF left.val.t = "String"
      THEN IF right.val.t = "String"
           THEN Ret(right, String(left.val.s \o right.val.s))
           ELSE Fail(right, "invalid add operation")
      ELSE IF left.val.t = "Instance"
              /\ HasMethod(right.classes, right.heap[left.val.id].cls, "__add__", 1)
      THEN Call(left.val.id, "__add__", <<right.val>>, right)
      ELSE Fail(right, "invalid add operation")))

\* A node whose holder is the only owner of the object it returns: the
\* object dies with the holder at the end of the full expression.  (A Const
\* node keeps its value; a variable's or field's value is kept by its map.)
Temporary(node) == node.kind \in {"Add", "Sub", "Mult", "Div"}

\* Sub, Mult and Div: TryAs<Number>() on the holder each operand returned,
\* then the numbers read through the two pointers.  A pointer taken from a
\* temporary holder dangles: reading through it is undefined, and yields
\* the old number (st.intact) or ends the run.
ExecArith(node, st, path) ==
    Then(Execute(node.lhs, st, Append(path, 1)), LAMBDA left :
    Then(Execute(node.rhs, left, Append(path, 2)), LAMBDA right :
      IF left.val.t = "Number" /\ right.val.t = "Number"
      THEN IF (Temporary(node.lhs) \/ Temporary(node.rhs)) /\ ~right.intact
           THEN Fail(right, "UB: read through a dangling pointer")
           ELSE IF node.kind = "Sub"
           THEN Ret(right, Number(left.val.n - right.val.n))
           ELSE IF node.kind = "Mult"
           THEN Ret(right, Number(left.val.n * right.val.n))
           ELSE IF right.val.n # 0
           THEN Ret(right, Number(TruncDiv(left.val.n, right.val.n)))
           ELSE Fail(right, "division by zero")
      ELSE IF node.kind = "Sub" THEN Fail(right, "invalid subtract operation")
      ELSE IF node.kind = "Mult" THEN Fail(right, "invalid mult operation")
      ELSE Fail(right, "invalid div operation")))

ExecCompound(node, st, path) == ExecStatements(node.statements, 1, st, path)

ExecReturn(node, st, path) ==
    Then(Execute(node.statement, st, Append(path, 1)), LAMBDA r :
      Ret(Bound(r, path, "Return", "returned_value"), None))

ExecClassDefinition(node, st, path) ==
    Ret(Bound(Ret(st, ClassRef(node.cls)), path, "ClassDefinition",
              st.classes[node.cls].name), None)

ExecFieldAssignment(node, st, path) ==
    Then(Execute(VariableValue(node.object), st, Append(path, 1)), LAMBDA o :
      IF o.val.t # "Instance" THEN NullDeref(o)
      ELSE Then(Execute(node.rv, o, Append(path, 2)), LAMBDA r :
             [r EXCEPT !.heap[o.val.id].fields =
                          Put(r.heap[o.val.id].fields, node.field_name, r.val)]))

ExecIfElse(node, st, path) ==
    Then(Execute(node.condition, st, Append(path, 1)), LAMBDA c :
      IF IsTrue(c.val)
      THEN Then(Execute(node.if_body, c, Append(path, 2)), LAMBDA b : Ret(b, None))
      ELSE IF node.else_body # NullStmt
      THEN Then(Execute(node.else_body, c, Append(path, 3)), LAMBDA b : Ret(b, None))
      ELSE Ret(c, None))

\* A variant of Or::Execute that evaluates both operands before it decides.
OrEager(node, st, path) ==
    Then(Execute(node.lhs, st, Append(path, 1)), LAMBDA left :
    Then(Execute(node.rhs, left, Append(path, 2)), LAMBDA right :
      Ret(right, Bool(IsTrue(left.val) \/ IsTrue(right.val)))))

ExecOr(node, st, path) ==
    Then(Execute(node.lhs, st, Append(path, 1)), LAMBDA left :
      IF ~IsTrue(left.val)
      THEN Then(Execute(node.rhs, left, Append(path, 2)), Truth)
      ELSE Ret(left, Bool(TRUE)))

ExecAnd(node, st, path) ==
    Then(Execute(node.lhs, st, Append(path, 1)), LAMBDA left :
      IF IsTrue(left.val)
      THEN Then(Execute(node.rhs, left, Append(path, 2)), Truth)
      ELSE Ret(left, Bool(FALSE)))

ExecNot(node, st, path) ==
    Then(Execute(node.argument, st, Append(path, 1)), LAMBDA r :
      Ret(r, Bool(~IsTrue(r.val))))

\* The two operands are arguments of one call: the build evaluates them in
\* either order (st.rtl: the right one first).
ExecComparison(node, st, path) ==
    IF st.rtl
    THEN Then(Execute(node.rhs, st, Append(path, 2)), LAMBDA right :
         Then(Execute(node.lhs, right, Append(path, 1)), LAMBDA left :
           Comparator(node.cmp, left.val, right.val, left)))
    ELSE Then(Execute(node.lhs, st, Append(path, 1)), LAMBDA left :
         Then(Execute(node.rhs, left, Append(path, 2)), LAMBDA right :
           Comparator(node.cmp, left.val, right.val, right)))

\* ObjectHolder::Own(ClassInstance(class_)): the instance is the next of the
\* heap.
Allocated(st, class) ==
    [st EXCEPT !.heap = Append(st.heap, [cls |-> class, fields |-> EmptyClosure])]

ExecNewInstance(node, st, path) ==
    Local(Own(Len(st.heap) + 1), LAMBDA object :
    Local(GetMethod(st.classes, node.class, "__init__"), LAMBDA method :
      IF method = NoMethod \/ Len(method.formal_params) # Len(node.args)
      THEN Ret(Allocated(st, node.class), object)
      ELSE Local(ExecArgs(node.args, 1, Allocated(st, node.class),
                          Append(path, 1), <<>>), LAMBDA actual_args :
             IF actual_args.st.err # "" THEN actual_args.st
             ELSE Then(Call(object.id, "__init__", actual_args.vals,
                            actual_args.st), LAMBDA after_init :
                    IF NonEmpty(after_init.val) THEN after_init
                    ELSE Ret(after_init, object)))))

ExecMethodBody(node, st, path) ==
    Then(Execute(node.body, st, Append(path, 1)), LAMBDA b :
      IF Has(b.closure, "returned_value")
      THEN Ret(Counts(b, path, "MethodBody"), b.closure["returned_value"])
      ELSE Ret(Counts(b, path, "MethodBody"), None))

\* The virtual call statement->Execute(closure, context).
Dispatch(node, st, path) ==
    CASE node.kind = "Const"           -> Ret(st, node.v)
      [] node.kind = "Assignment"      -> ExecAssignment(node, st, path)
      [] node.kind = "VariableValue"   -> ExecVariableValue(node, st, path)
      [] node.kind = "Print"           -> ExecPrint(node, st, path)
      [] node.kind = "MethodCall"      -> ExecMethodCall(node, st, path)
      [] node.kind = "Stringify"       -> ExecStringify(node, st, path)
      [] node.kind = "Add"             -> ExecAdd(node, st, path)
      [] node.kind \in {"Sub", "Mult", "Div"} -> ExecArith(node, st, path)
      [] node.kind = "Compound"        -> ExecCompound(node, st, path)
      [] node.kind = "Return"          -> ExecReturn(node, st, path)
      [] node.kind = "ClassDefinition" -> ExecClassDefinition(node, st, path)
      [] node.kind = "FieldAssignment" -> ExecFieldAssignment(node, st, path)
      [] node.kind = "IfElse"          -> ExecIfElse(node, st, path)
      [] node.kind = "Or"              -> ExecOr(node, st, path)
      [] node.kind = "And"             -> ExecAnd(node, st, path)
      [] node.kind = "Not"             -> ExecNot(node, st, path)
      [] node.kind = "Comparison"      -> ExecComparison(node, st, path)
      [] node.kind = "NewInstance"     -> ExecNewInstance(node, st, path)
      [] node.kind = "MethodBody"      -> ExecMethodBody(node, st, path)

\* Execute, with the node's entry and (when it does not throw) exit logged.
Execute(node, st, path) ==
    IF st.err # "" THEN st
    ELSE Then(Dispatch(node, Note(st, path, node.kind, "enter", "", None, {}),
                       path), LAMBDA r :
           Note(r, path, node.kind, "exit", "", r.val, {}))

----------------------------------------------------------------------------
(***************************************************************************)
(*                       THE EVALUATOR AS A MACHINE                        *)
(***************************************************************************)
MaxSteps   == 3
MaxClasses == 3
MaxObjects == 2

Method(name, formal_params, body) ==
    [name |-> name, formal_params |-> formal_params, body |-> body]

Num(n)  == Const(Number(n))
Str(str) == Const(String(str))
Var(name) == VariableValue(<<name>>)

\* class A:
\*   def get(p):   if p: return 1          def peek():  return x
\*                 t = 2
\*                 return t
\*   def nest():   (return "a")            def leak():  returned_value = 7
\*                 self.n = 1                           print "a"
\*                 return "b"
\*   def __eq__(o): return False
ClassA ==
    ClassCtor("A",
      << Method("get", <<"p">>, MethodBody(Compound(<<
            IfElse(Var("p"), Return(Num(1)), NullStmt),
            Assignment("t", Num(2)),
            Return(Var("t")) >>))),
         Method("peek", <<>>, MethodBody(Compound(<< Return(Var("x")) >>))),
         Method("nest", <<>>, MethodBody(Compound(<<
            Compound(<< Return(Str("a")) >>),
            FieldAssignment(<<"self">>, "n", Num(1)),
            Return(Str("b")) >>))),
         Method("leak", <<>>, MethodBody(Compound(<<
            Assignment("returned_value", Num(7)),
            PrintStmt(<< Str("a") >>) >>))),
         Method("__eq__", <<"o">>, MethodBody(Return(Const(Bool(FALSE))))) >>,
      0)

\* class B(A):
\*   def outer(q):   u = self.get(q)       def __lt__(o): return True
\*                   return u
ClassB ==
    ClassCtor("B",
      << Method("outer", <<"q">>, MethodBody(Compound(<<
            Assignment("u", MethodCall(Var("self"), "get", << Var("q") >>)),
            Return(Var("u")) >>))),
         Method("__lt__", <<"o">>, MethodBody(Return(Const(Bool(TRUE))))) >>,
      1)

\* class C:
\*   def __lt__(o): return o               def __eq__(): return True
ClassC ==
    ClassCtor("C",
      << Method("__lt__", <<"o">>, MethodBody(Return(Var("o")))),
         Method("__eq__", <<>>, MethodBody(Return(Const(Bool(TRUE))))) >>,
      0)

\* class D:
\*   def __eq__(o): return 1               def __lt__(o): return ""
ClassD ==
    ClassCtor("D",
      << Method("__eq__", <<"o">>, MethodBody(Return(Num(1)))),
         Method("__lt__", <<"o">>, MethodBody(Return(Str("")))) >>,
      0)

ProgramClasses == << ClassA, ClassB, ClassC, ClassD >>

\* The statements a run executes in the global scope.
Programs ==
    { Assignment("x", Num(1)),
      Assignment("o", NewInstance(1, <<>>)),
      Assignment("o", NewInstance(2, <<>>)),
      Assignment("r", MethodCall(Var("o"), "get", << Const(Bool(TRUE)) >>)),
      Assignment("r", MethodCall(Var("o"), "get", << Num(0) >>)),
      Assignment("r", MethodCall(Var("o"), "outer", << Var("x") >>)),
      MethodCall(Var("o"), "peek", <<>>),
      MethodCall(Var("o"), "nest", <<>>),
      PrintStmt(<< MethodCall(Var("o"), "leak", <<>>), Var("r") >>),
      Or(Num(1), Assignment("p", Num(1))),
      Or(Str(""), Assignment("p", Num(0))),
      Or(Var("x"), FieldAssignment(<<"o">>, "n", Num(1))),
      And(Const(None), PrintStmt(<< Str("a") >>)),
      And(Var("x"), PrintStmt(<< Var("o") >>)),
      Assignment("returned_value", Num(7)),
      PrintStmt(<< Var("returned_value") >>),
      Compound(<< IfElse(Var("x"), Return(Num(3)), NullStmt),
                  Assignment("y", Num(1)) >>),
      Compound(<< Assignment("y", Num(2)), PrintStmt(<< Var("y") >>) >>),
      Assignment("e", Comparison("Equal", Var("o"), Var("o"))),
      Assignment("y", Sub(Add(Var("x"), Num(1)), Num(1))),
      ClassDefinition(1) }

\* The state a run starts in.
StateOf(rtl, intact) ==
    [closure |-> closure, heap |-> heap, out |-> output, err |-> "",
     val |-> None, log |-> <<>>, f |-> 0, nf |-> 0, rtl |-> rtl,
     intact |-> intact, classes |-> classes]

Idle == [kind |-> "none", err |-> ""]

\* One statement executed in the global scope.  An exception ends the
\* program: nothing runs after it.
Run(stmt, rtl, intact) ==
    /\ steps < MaxSteps
    /\ outcome.err = ""
    /\ \E r \in {Execute(stmt, StateOf(rtl, intact), <<>>)} :
         /\ closure' = r.closure
         /\ heap' = r.heap
         /\ output' = r.out
         /\ outcome' = [kind |-> "Run", node |-> stmt, log |-> r.log,
                        err |-> r.err, val |-> r.val,
                        before |-> StateOf(rtl, intact)]
    /\ steps' = steps + 1
    /\ UNCHANGED <<lexVars, classes>>

Init ==
    /\ lexer = NewLexer
    /\ plain = NewLexer
    /\ source = [closed |-> FALSE, fed |-> 0, held |-> <<>>, junk |-> 0]
    /\ watch = [prev |-> -1, line |-> -1, started |-> TRUE, nInd |-> 0,
                nDed |-> 0, junk |-> 0, chk |-> NoChk, atEof |-> FALSE,
                eofCalls |-> 0, open |-> 0, synth |-> FALSE, cmt |-> FALSE,
                pcmt |-> FALSE, nNl |-> 0, nls |-> 0]
    /\ classes = ProgramClasses
    /\ closure = EmptyClosure
    /\ heap = <<>>
    /\ output = ""
    /\ outcome = Idle
    /\ steps = 0

Next == \E stmt \in Programs, rtl \in BOOLEAN, intact \in BOOLEAN :
           Run(stmt, rtl, intact)

Spec == Init /\ [][Next]_vars

(***************************************************************************)
(* The comparators applied to the values a program can hold.               *)
(***************************************************************************)
ObjectNames == <<"o", "q", "w">>

\* name = ClassName()
Make(c) ==
    /\ Len(heap) < MaxObjects
    /\ \E r \in {Execute(Assignment(ObjectNames[Len(heap) + 1],
                                    NewInstance(c, <<>>)),
                         StateOf(FALSE, TRUE), <<>>)} :
         /\ closure' = r.closure
         /\ heap' = r.heap
         /\ output' = r.out
    /\ outcome' = Idle
    /\ UNCHANGED <<lexVars, classes, steps>>

\* The holders a comparison can be handed.
Representable ==
    {None, Number(0), Number(1), String(""), String("a"), Bool(FALSE),
     Bool(TRUE), ClassRef(1)} \cup {closure[n] : n \in DOMAIN closure}

\* One comparator applied to two holders, as the last thing done with the
\* objects made so far.
Compare(cmp, x, y) ==
    /\ outcome = Idle
    /\ \E r \in {Comparator(cmp, x, y, StateOf(FALSE, TRUE))} :
         /\ heap' = r.heap
         /\ output' = r.out
         /\ outcome' = [kind |-> "Compare", cmp |-> cmp, x |-> x, y |-> y,
                        err |-> r.err, val |-> r.val,
                        before |-> StateOf(FALSE, TRUE)]
    /\ UNCHANGED <<lexVars, classes, closure, steps>>

NextCmp ==
    \/ \E c \in 1..Len(ProgramClasses) : Make(c)
    \/ \E cmp \in Comparators, x \in Representable, y \in Representable :
          Compare(cmp, x, y)

SpecCmp == Init /\ [][NextCmp]_vars

(***************************************************************************)
(* Class tables built class by class, and GetMethod asked of them.         *)
(***************************************************************************)
ClassNames  == <<"A", "B", "C", "D", "E">>
MethodNames == {"f", "g", "h"}
MethodLists ==
    { <<>>,
      << Method("f", <<>>, NullStmt) >>,
      << Method("g", <<>>, NullStmt) >>,
      << Method("f", <<>>, NullStmt), Method("g", <<"p">>, NullStmt) >>,
      << Method("f", <<>>, NullStmt), Method("f", <<"p">>, NullStmt) >> }

\* Class(name, methods, parent): parent is a class made before, or none.
DefineClass(methods, parent) ==
    /\ Len(classes) < MaxClasses
    /\ classes' = Append(classes,
                         ClassCtor(ClassNames[Len(classes) + 1], methods, parent))
    /\ outcome' = Idle
    /\ UNCHANGED <<lexVars, closure, heap, output, steps>>

\* cls.GetMethod(name)
Lookup(c, name) ==
    /\ outcome' = [kind |-> "GetMethod", c |-> c, name |-> name, err |-> "",
                   method |-> GetMethod(classes, c, name)]
    /\ UNCHANGED <<lexVars, classes, closure, heap, output, steps>>

InitClass ==
    /\ lexer = NewLexer
    /\ plain = NewLexer
    /\ source = [closed |-> FALSE, fed |-> 0, held |-> <<>>, junk |-> 0]
    /\ watch = [prev |-> -1, line |-> -1, started |-> TRUE, nInd |-> 0,
                nDed |-> 0, junk |-> 0, chk |-> NoChk, atEof |-> FALSE,
                eofCalls |-> 0, open |-> 0, synth |-> FALSE, cmt |-> FALSE,
                pcmt |-> FALSE, nNl |-> 0, nls |-> 0]
    /\ classes = <<>>
    /\ closure = EmptyClosure
    /\ heap = <<>>
    /\ output = ""
    /\ outcome = Idle
    /\ steps = 0

NextClass ==
    \/ \E methods \in MethodLists, parent \in 0..Len(classes) :
          DefineClass(methods, parent)
    \/ \E c \in 1..Len(classes), name \in MethodNames : Lookup(c, name)

SpecClass == InitClass /\ [][NextClass]_vars

(***************************************************************************)
(* Programs about instances: self, __str__, Print and method dispatch.     *)
(***************************************************************************)
\* class P:
\*   def me():        return self         def keep():    self.s = self
\*   def become(v):   self = v            def two(a, b): return a
\*                    return 1
ClassP ==
    ClassCtor("P",
      << Method("me", <<>>, MethodBody(Return(Var("self")))),
         Method("keep", <<>>,
                MethodBody(FieldAssignment(<<"self">>, "s", Var("self")))),
         Method("become", <<"v">>, MethodBody(Compound(<<
            Assignment("self", Var("v")),
            Return(Num(1)) >>))),
         Method("two", <<"a", "b">>, MethodBody(Return(Var("a")))) >>,
      0)

\* class S(P):
\*   def __str__(): return "s"
ClassS ==
    ClassCtor("S", << Method("__str__", <<>>, MethodBody(Return(Str("s")))) >>, 1)

\* class T(S):
\*   def id(): return 0
ClassT ==
    ClassCtor("T", << Method("id", <<>>, MethodBody(Return(Num(0)))) >>, 2)

\* class N:
\*   def __str__(): return 5
ClassN ==
    ClassCtor("N", << Method("__str__", <<>>, MethodBody(Return(Num(5)))) >>, 0)

\* class U:
\*   def __str__(x): return "u"
ClassU ==
    ClassCtor("U", << Method("__str__", <<"x">>, MethodBody(Return(Str("u")))) >>,
              0)

ObjectClasses == << ClassP, ClassS, ClassT, ClassN, ClassU >>

\* The statements a run about instances executes in the global scope.
ObjectPrograms ==
    { Assignment("o", NewInstance(1, <<>>)),
      Assignment("o", NewInstance(3, <<>>)),
      Assignment("n", NewInstance(4, <<>>)),
      Assignment("u", NewInstance(5, <<>>)),
      Assignment("a", MethodCall(Var("o"), "me", <<>>)),
      MethodCall(Var("o"), "keep", <<>>),
      Assignment("r", MethodCall(Var("o"), "become", << Num(5) >>)),
      Assignment("r", MethodCall(Var("o"), "become", << Const(None) >>)),
      Assignment("r", MethodCall(Var("o"), "become", << Var("o") >>)),
      Assignment("r", MethodCall(Var("o"), "two", << Num(1), Num(2) >>)),
      MethodCall(Var("o"), "two", << Num(1) >>),
      MethodCall(Var("o"), "nope", <<>>),
      MethodCall(Assignment("rcv", Var("o")), "two",
                 << Assignment("a1", Num(1)), Assignment("a2", Num(2)) >>),
      PrintStmt(<< Var("o") >>),
      PrintStmt(<< Var("n") >>),
      PrintStmt(<< Var("u") >>),
      PrintStmt(<<>>),
      PrintStmt(<< Assignment("p1", Const(None)), Const(Bool(TRUE)),
                   Assignment("p2", Str("a")) >>),
      PrintStmt(<< Var("o"), Var("r") >>),
      Assignment("t", Stringify(Var("n"))),
      Assignment("t", Stringify(Var("u"))) }

InitObj ==
    /\ lexer = NewLexer
    /\ plain = NewLexer
    /\ source = [closed |-> FALSE, fed |-> 0, held |-> <<>>, junk |-> 0]
    /\ watch = [prev |-> -1, line |-> -1, started |-> TRUE, nInd |-> 0,
                nDed |-> 0, junk |-> 0, chk |-> NoChk, atEof |-> FALSE,
                eofCalls |-> 0, open |-> 0, synth |-> FALSE, cmt |-> FALSE,
                pcmt |-> FALSE, nNl |-> 0, nls |-> 0]
    /\ classes = ObjectClasses
    /\ closure = EmptyClosure
    /\ heap = <<>>
    /\ output = ""
    /\ outcome = Idle
    /\ steps = 0

NextObj == \E stmt \in ObjectPrograms, rtl \in BOOLEAN, intact \in BOOLEAN :
              Run(stmt, rtl, intact)

SpecObj == InitObj /\ [][NextObj]_vars

(***************************************************************************)
(* Programs about values: arithmetic, fields and new instances.            *)
(***************************************************************************)
\* class K:
\*   def __sub__(o): return 1              def __mul__(o): return 1
\*   def __div__(o): return 1
ClassK ==
    ClassCtor("K",
      << Method("__sub__", <<"o">>, MethodBody(Return(Num(1)))),
         Method("__mul__", <<"o">>, MethodBody(Return(Num(1)))),
         Method("__div__", <<"o">>, MethodBody(Return(Num(1)))) >>,
      0)

\* class I:
\*   def __init__(v): self.v = v
ClassI ==
    ClassCtor("I",
      << Method("__init__", <<"v">>,
                MethodBody(FieldAssignment(<<"self">>, "v", Var("v")))) >>,
      0)

\* class J:
\*   def __init__(): return 5
ClassJ ==
    ClassCtor("J", << Method("__init__", <<>>, MethodBody(Return(Num(5)))) >>, 0)

\* class L(I):
\*   def id(): return 0
ClassL ==
    ClassCtor("L", << Method("id", <<>>, MethodBody(Return(Num(0)))) >>, 2)

ValueClasses == << ClassK, ClassI, ClassJ, ClassL >>

\* The statements a run about values executes in the global scope.
ValuePrograms ==
    { Assignment("x", Num(7)),
      Assignment("x", Num(0 - 7)),
      Assignment("o", NewInstance(1, <<>>)),
      Assignment("y", Sub(Var("x"), Num(2))),
      Assignment("y", Mult(Var("x"), Num(2))),
      Assignment("y", Div(Var("x"), Num(2))),
      Assignment("y", Div(Var("x"), Num(0))),
      Assignment("y", Sub(Var("o"), Num(1))),
      Assignment("y", Mult(Var("o"), Num(1))),
      Assignment("y", Div(Var("o"), Num(1))),
      Assignment("y", Sub(Str("a"), Num(1))),
      Assignment("y", Mult(Num(1), Const(None))),
      Assignment("y", Sub(Add(Var("x"), Num(1)), Num(1))),
      Assignment("y", Mult(Var("x"), Sub(Var("x"), Num(1)))),
      FieldAssignment(<<"o">>, "f", Num(1)),
      Var("x"),
      VariableValue(<<"o", "f">>),
      VariableValue(<<"o", "z">>),
      VariableValue(<<"x", "f">>),
      PrintStmt(<< VariableValue(<<"o", "z">>) >>),
      Assignment("i", NewInstance(2, << Var("x") >>)),
      Assignment("i", NewInstance(4, << Assignment("s", Num(1)) >>)),
      Assignment("i", NewInstance(2, << Assignment("s", Num(1)),
                                       Assignment("s", Num(2)) >>)),
      Assignment("i", NewInstance(4, <<>>)),
      Assignment("i", NewInstance(3, <<>>)) }

InitVal ==
    /\ lexer = NewLexer
    /\ plain = NewLexer
    /\ source = [closed |-> FALSE, fed |-> 0, held |-> <<>>, junk |-> 0]
    /\ watch = [prev |-> -1, line |-> -1, started |-> TRUE, nInd |-> 0,
                nDed |-> 0, junk |-> 0, chk |-> NoChk, atEof |-> FALSE,
                eofCalls |-> 0, open |-> 0, synth |-> FALSE, cmt |-> FALSE,
                pcmt |-> FALSE, nNl |-> 0, nls |-> 0]
    /\ classes = ValueClasses
    /\ closure = EmptyClosure
    /\ heap = <<>>
    /\ output = ""
    /\ outcome = Idle
    /\ steps = 0

NextVal == \E stmt \in ValuePrograms, rtl \in BOOLEAN, intact \in BOOLEAN :
              Run(stmt, rtl, intact)

SpecVal == InitVal /\ [][NextVal]_vars

----------------------------------------------------------------------------
(***************************************************************************)
(*                     Properties of the lexer machine                     *)
(***************************************************************************)
Max(a, b) == IF a > b THEN a ELSE b

\* C1: for successive code lines with (even) indent levels l_i and l_{i+1},
\* the layout tokens returned before the first token of line i+1 are exactly
\* l_{i+1} - l_i Indent tokens when the delta is positive, l_i - l_{i+1}
\* Dedent tokens when it is negative, and none when it is zero.
C1_LayoutFollowsDeltas ==
    (watch.chk.valid /\ ~watch.chk.first
       /\ watch.chk.from % 2 = 0 /\ watch.chk.to % 2 = 0)
    => LET delta == (watch.chk.to \div 2) - (watch.chk.from \div 2)
       IN  /\ watch.chk.ind = Max(delta, 0)
           /\ watch.chk.ded = Max(-delta, 0)

\* C2: blank and comment-only lines inserted between two statements leave
\* the token stream unchanged: call by call, the lexer over the stream with
\* the inserted lines returns the token (or raises the error) that the lexer
\* over the stream without them does, and needs input when that one does.
C2_BlankLinesTransparent ==
    /\ lexer.err = plain.err
    /\ lexer.built = plain.built
    /\ lexer.built => TokenEq(lexer.cur, plain.cur) /\ TokenEq(plain.cur, lexer.cur)
    /\ (lexer.err = "" /\ ~Starved(lexer)) => ~Starved(plain)

\* The first token of a statement has been returned after two inserted lines
\* and an Indent.
C2_Witness ==
    /\ watch.chk.valid /\ watch.chk.junk >= 2 /\ watch.chk.ind >= 1
    /\ lexer.cur.type = "Id" /\ plain.cur.type = "Id"

\* C3: no token of a code line with an odd number of leading spaces is ever
\* returned, the first line of the input included (the lexer raises
\* "invalid indent" instead).
C3_OddIndentRejected ==
    watch.chk.valid => watch.chk.to % 2 = 0

\* C4: once NextToken has returned Eof, every later call returns Eof, leaves
\* the current token Eof, consumes no input and raises no error.
C4_EofIsFinal ==
    [][TokenEq(lexer.cur, EofTok)
         => /\ TokenEq(lexer'.cur, EofTok)
            /\ lexer'.input = lexer.input
            /\ lexer'.err = ""
            /\ lexer'.diff = lexer.diff /\ lexer'.indent = lexer.indent]_vars

\* NextToken has been called twice with Eof already returned.
C4_Witness ==
    /\ TokenEq(lexer.cur, EofTok) /\ watch.atEof /\ watch.eofCalls = 2
----------------------------------------------------------------------------
(***************************************************************************)
(*                       Properties of the evaluator                       *)
(***************************************************************************)
\* What the last run did.
Ran      == outcome.kind = "Run"
Log      == outcome.log
Steps    == 1..Len(outcome.log)
IsPrefix(p, q) == Len(p) <= Len(q) /\ SubSeq(q, 1, Len(p)) = p
\* The node at path p was executed in scope f, and was a k.
EnteredAs(f, p, k) ==
    \E i \in Steps : Log[i].e = "enter" /\ Log[i].f = f /\ Log[i].path = p
                     /\ Log[i].k = k
\* Step i is the binding made by a Return node.
ReturnBound(i) == Log[i].k = "Return" /\ Log[i].e = "bind"
\* In scope f, q is a later sibling of (an ancestor of) r in some Compound.
LaterSibling(f, r, q) ==
    \E n \in 0..(Len(r) - 1) :
       /\ Len(q) = n + 1
       /\ SubSeq(q, 1, n) = SubSeq(r, 1, n)
       /\ q[n + 1] > r[n + 1]
       /\ EnteredAs(f, SubSeq(r, 1, n), "Compound")
\* In scope f, every node strictly between the nodes at paths m and r is a
\* Compound, or an IfElse of which r is in a branch.
InStatementPosition(f, m, r) ==
    \A n \in (Len(m) + 1)..(Len(r) - 1) :
       \/ EnteredAs(f, SubSeq(r, 1, n), "Compound")
       \/ EnteredAs(f, SubSeq(r, 1, n), "IfElse") /\ r[n + 1] \in {2, 3}

\* C5: once a Return has executed in a scope, no later sibling statement of
\* the Compound it is in, nor of any Compound enclosing that one in the same
\* scope, is executed; and the MethodBody whose statements they are yields
\* the value that Return bound.
C5_ReturnStopsSiblings ==
    Ran =>
      \A i \in Steps : ReturnBound(i) =>
        \A j \in Steps : j > i /\ Log[j].f = Log[i].f =>
          /\ Log[j].e = "enter"
               => ~LaterSibling(Log[i].f, Log[i].path, Log[j].path)
          /\ ( /\ Log[j].e = "exit" /\ Log[j].k = "MethodBody"
               /\ IsPrefix(Log[j].path, Log[i].path)
               /\ InStatementPosition(Log[i].f, Log[j].path, Log[i].path) )
               => Log[j].v = Log[i].v

\* A Return inside an IfElse among three statements of a method body has
\* run, the call has ended, and the method yielded the value it bound.
C5_Witness ==
    /\ Ran /\ outcome.err = ""
    /\ \E i, j \in Steps :
         /\ i < j /\ ReturnBound(i) /\ Log[i].f > 0 /\ Len(Log[i].path) = 5
         /\ EnteredAs(Log[i].f, SubSeq(Log[i].path, 1, 4), "IfElse")
         /\ EnteredAs(Log[i].f, SubSeq(Log[i].path, 1, 3), "Compound")
         /\ Len(classes[0 - Log[i].path[1]].methods[Log[i].path[2]]
                  .body.body.statements) > Log[i].path[4]
         /\ Log[j].f = Log[i].f /\ Log[j].e = "exit" /\ Log[j].k = "MethodBody"
         /\ Log[j].v = Number(1)

\* The call that made scope f.
CallOf(f) == CHOOSE i \in Steps : Log[i].e = "call" /\ Log[i].f = f
Range(seq) == {seq[i] : i \in 1..Len(seq)}
\* The method whose body is rooted at path p.
MethodAt(p) == classes[0 - p[1]].methods[p[2]]

\* C6: the scope a method body runs in is made for the call, and starts
\* with exactly self and the formal parameters; a VariableValue in the body
\* on a name that is neither of these nor bound by the body so far raises
\* "unknown variable", whatever the caller's scope binds.
C6_FreshCallScope ==
    Ran =>
      /\ \A i \in Steps : Log[i].e = "call" =>
            /\ Log[i].keys = {"self"} \cup Range(MethodAt(Log[i].path).formal_params)
            /\ Log[i].f > 0
            /\ \A j \in Steps : j < i => Log[j].f # Log[i].f
      /\ \A j \in Steps :
            ( /\ Log[j].k = "VariableValue" /\ Log[j].e = "read" /\ Log[j].f > 0
              /\ Log[j].key \notin Log[CallOf(Log[j].f)].keys
              /\ ~\E b \in 1..(j - 1) : /\ Log[b].e = "bind" /\ Log[b].f = Log[j].f
                                        /\ Log[b].key = Log[j].key )
            => /\ j = Len(Log)
               /\ outcome.err = "unknown variable " \o Log[j].key

\* A method body has asked for a name that the caller's scope binds and
\* that was not passed to it.
C6_Witness ==
    /\ Ran
    /\ \E j \in Steps :
         /\ Log[j].k = "VariableValue" /\ Log[j].e = "read" /\ Log[j].f > 0
         /\ Log[j].key \in DOMAIN outcome.before.closure
         /\ Log[j].key \notin Log[CallOf(Log[j].f)].keys
    /\ outcome.err = "unknown variable x"

\* Step j is where the left operand of the Or/And entered at step i
\* returned.
LeftDone(i, j) ==
    /\ j > i /\ Log[j].e = "exit" /\ Log[j].f = Log[i].f
    /\ Log[j].path = Append(Log[i].path, 1)
\* The steps of scope Log[i].f that belong to the right operand.
RightSteps(i) ==
    {j \in Steps : /\ j > i /\ Log[j].f = Log[i].f
                   /\ IsPrefix(Append(Log[i].path, 2), Log[j].path)}
\* Step j is the Or/And entered at step i returning v.
Yields(i, j, v) ==
    /\ j \in Steps /\ Log[j].e = "exit" /\ Log[j].f = Log[i].f
    /\ Log[j].path = Log[i].path /\ Log[j].v = v
\* The operand l decides the Or/And of kind k alone.
Decides(k, l) == IF k = "Or" THEN IsTrue(l) ELSE ~IsTrue(l)
\* The run changed neither the scope, nor a field map, nor the output.
NoEffect ==
    /\ closure = outcome.before.closure
    /\ heap = outcome.before.heap
    /\ output = outcome.before.out

\* C7: Or with a truthy left operand, and And with a falsy one, returns
\* Bool(true) resp. Bool(false) straight after the left operand, without
\* executing the right operand or any of its effects; otherwise the right
\* operand is executed exactly once, straight after the left one.
C7_ShortCircuit ==
    Ran =>
      /\ \A i, j \in Steps :
           (Log[i].e = "enter" /\ Log[i].k \in {"Or", "And"} /\ LeftDone(i, j)) =>
              IF Decides(Log[i].k, Log[j].v)
              THEN /\ RightSteps(i) = {}
                   /\ Yields(i, j + 1, Bool(Log[i].k = "Or"))
              ELSE /\ j + 1 \in RightSteps(i)
                   /\ Log[j + 1].e = "enter"
                   /\ Log[j + 1].path = Append(Log[i].path, 2)
                   /\ Cardinality({m \in RightSteps(i) :
                         Log[m].e = "enter"
                         /\ Log[m].path = Append(Log[i].path, 2)}) = 1
      /\ ( /\ outcome.node.kind \in {"Or", "And"}
           /\ outcome.node.lhs.kind = "Const"
           /\ Decides(outcome.node.kind, outcome.node.lhs.v) )
         => NoEffect /\ outcome.val = Bool(outcome.node.kind = "Or")

\* An Or whose left operand is truthy and whose right operand would bind a
\* name has run and bound nothing.
C7_Witness ==
    /\ Ran /\ outcome.node.kind = "Or" /\ outcome.node.rhs.kind = "Assignment"
    /\ IsTrue(outcome.node.lhs.v)
    /\ outcome.val = Bool(TRUE)
    /\ outcome.node.rhs.var \notin DOMAIN closure

\* C10: the key returned_value is bound only by Return nodes and read only
\* by Compound and MethodBody nodes.
C10_SentinelNotExposed ==
    Ran =>
      \A i \in Steps : Log[i].key = "returned_value" =>
         /\ Log[i].e = "bind" => Log[i].k = "Return"
         /\ Log[i].e = "read" => Log[i].k \in {"Compound", "MethodBody"}

----------------------------------------------------------------------------
(***************************************************************************)
(*                      Properties of the class table                      *)
(***************************************************************************)
RECURSIVE Chain(_)
\* A class, its parent, its parent's parent, ...
Chain(c) == IF c = 0 THEN <<>> ELSE <<c>> \o Chain(classes[c].parent)
\* Class d has a method called name.
Defines(d, name) == \E i \in 1..Len(classes[d].methods) :
                       classes[d].methods[i].name = name

\* C8: GetMethod(n) on a class returns a method of the first class of its
\* chain (itself, its parent, ...) that defines n, absent when none does,
\* and the method returned is called n.
C8_GetMethodFollowsChain ==
    outcome.kind = "GetMethod" =>
      LET chain == Chain(outcome.c)
          hits  == {k \in 1..Len(chain) : Defines(chain[k], outcome.name)}
          m     == outcome.method
      IN  IF hits = {} THEN m = NoMethod
          ELSE LET first == CHOOSE k \in hits : \A h \in hits : k <= h IN
               /\ m # NoMethod
               /\ m.cls = chain[first]
               /\ m.name = outcome.name
               /\ m.pos \in 1..Len(classes[m.cls].methods)
               /\ classes[m.cls].methods[m.pos].name = outcome.name
               /\ classes[m.cls].methods[m.pos].formal_params = m.formal_params

\* A class and its parent both define the name asked for, and the class's
\* own method came back.
C8_Witness ==
    /\ outcome.kind = "GetMethod"
    /\ classes[outcome.c].parent # 0
    /\ Defines(outcome.c, outcome.name)
    /\ Defines(classes[outcome.c].parent, outcome.name)
    /\ outcome.method.cls = outcome.c

----------------------------------------------------------------------------
(***************************************************************************)
(*                       Properties of the comparators                     *)
(***************************************************************************)
Compared == outcome.kind = "Compare"
\* The comparison returned b.
Gave(b)  == outcome.err = "" /\ outcome.val = Bool(b)
\* The comparison ended as r did: the same exception, or the negation of
\* r's Bool.
NegationOf(r) ==
    IF r.err # "" THEN outcome.err = r.err ELSE Gave(~r.val.b)

\* C9 as stated: Equal(x, x) is true for every value x.
C9_EqualReflexive ==
    (Compared /\ outcome.cmp = "Equal" /\ outcome.x = outcome.y) => Gave(TRUE)

\* C9, amended: Equal(x, x) is true for None and for every Number, String
\* and Bool; on a Class, and on an Instance whose class has no __eq__ of
\* one parameter, it raises "Cannot compare objects for equality"; on an
\* Instance with such a method it is the truth test of what the method
\* returns.  For every pair, NotEqual is the negation of Equal, LessOrEqual
\* of Greater and GreaterOrEqual of Less, and Greater is false when Less is
\* true and the negation of Equal when Less is false, each raising what the
\* comparator it is derived from raises.
C9_EqualityLaws ==
    Compared =>
      LET x  == outcome.x
          y  == outcome.y
          st == outcome.before
      IN
      /\ (outcome.cmp = "Equal" /\ x = y) =>
           IF x.t \in {"None", "Number", "String", "Bool"} THEN Gave(TRUE)
           ELSE IF x.t = "Instance"
                   /\ HasMethod(st.classes, st.heap[x.id].cls, "__eq__", 1)
           THEN LET r == Call(x.id, "__eq__", <<y>>, st)
                IN  IF r.err # "" THEN outcome.err = r.err
                    ELSE Gave(IsTrue(r.val))
           ELSE outcome.err = "Cannot compare objects for equality"
      /\ outcome.cmp = "NotEqual" => NegationOf(Equal(x, y, st))
      /\ outcome.cmp = "LessOrEqual" => NegationOf(Greater(x, y, st))
      /\ outcome.cmp = "GreaterOrEqual" => NegationOf(Less(x, y, st))
      /\ outcome.cmp = "Greater" =>
           LET l == Less(x, y, st)
           IN  IF l.err # "" THEN outcome.err = l.err
               ELSE IF l.val.b THEN Gave(FALSE)
               ELSE NegationOf(Equal(x, y, l))

\* An instance whose class defines __eq__ has been compared with itself,
\* and the method's answer came back.
C9_Witness ==
    /\ Compared /\ outcome.cmp = "Equal" /\ outcome.x = outcome.y
    /\ outcome.x.t = "Instance" /\ Gave(FALSE)

----------------------------------------------------------------------------
(***************************************************************************)
(*                 Properties of instances and their methods               *)
(***************************************************************************)
\* A non-owning handle (made by ObjectHolder::Share).
Alias(h) == h.t = "Instance" /\ ~h.own

\* C11: the alias made for self lives within its method call: once the
\* calls of a run have returned, no alias is what the run returned, is bound
\* in the scope, or is held in the field map of an instance.
C11_AliasConfinedToCall ==
    Ran =>
      /\ ~Alias(outcome.val)
      /\ \A n \in DOMAIN closure : ~Alias(closure[n])
      /\ \A i \in 1..Len(heap) :
            \A n \in DOMAIN heap[i].fields : ~Alias(heap[i].fields[n])

\* The run printed the one variable v, bound to an instance.
PrintedInstance(v) ==
    /\ Ran /\ outcome.node = PrintStmt(<< Var(v) >>)
    /\ Has(outcome.before.closure, v)
    /\ outcome.before.closure[v].t = "Instance"

\* C12: printing an instance whose class or an ancestor of it defines
\* __str__ writes the printed form of what __str__, called with no
\* arguments, returns, whatever the type of that result; printing any other
\* instance writes an identity marker.
C12_PrintsStrResult ==
    \A v \in {"o", "n", "u"} : PrintedInstance(v) =>
      LET h == outcome.before.closure[v]
          r == Call(h.id, "__str__", <<>>, outcome.before)
      IN  IF GetMethod(classes, heap[h.id].cls, "__str__") # NoMethod
          THEN r.err = "" =>
                 /\ outcome.err = ""
                 /\ output = outcome.before.out
                               \o (IF NonEmpty(r.val) THEN PrintObject(r.val, r).text
                                   ELSE "None")
                               \o "\n"
          ELSE /\ outcome.err = ""
               /\ output = outcome.before.out \o "<object " \o ToString(h.id)
                             \o ">" \o "\n"

\* The steps of the last run at which the node at path was entered / left.
EnterOf(path) == {k \in Steps : Log[k].e = "enter" /\ Log[k].path = path}
ExitOf(path)  == {k \in Steps : Log[k].e = "exit" /\ Log[k].path = path}
\* The printed form of the value v in the state the run ended in.
FormOf(v) ==
    IF ~NonEmpty(v) THEN "None"
    ELSE PrintObject(v, [outcome.before EXCEPT !.heap = heap]).text
RECURSIVE Joined(_, _)
\* The forms of the values the arguments i.. of the printed node evaluated
\* to, with one space between neighbours.
Joined(n, i) ==
    IF i > n THEN ""
    ELSE FormOf(Log[CHOOSE k \in ExitOf(<<i>>) : TRUE].v)
           \o (IF i < n THEN " " ELSE "") \o Joined(n, i + 1)

\* C13: a Print of n >= 0 arguments that is the only Print of its run
\* evaluates its arguments left to right, each exactly once, appends to the
\* output their printed forms ('None' for an empty handle) joined by single
\* spaces and followed by one newline (the newline alone when n = 0), and
\* returns None.
C13_PrintJoinsForms ==
    (/\ Ran /\ outcome.node.kind = "Print" /\ outcome.err = ""
     /\ \A k \in Steps : Log[k].k = "Print" => Log[k].path = <<>>)
    => LET n == Len(outcome.node.args)
       IN  /\ \A i \in 1..n : /\ Cardinality(EnterOf(<<i>>)) = 1
                              /\ Cardinality(ExitOf(<<i>>)) = 1
           /\ \A i \in 1..n, j \in 1..n : i < j =>
                 \A a \in ExitOf(<<i>>), b \in EnterOf(<<j>>) : a < b
           /\ output = outcome.before.out \o Joined(n, 1) \o "\n"
           /\ outcome.val = None

\* Three arguments, the first of them an empty handle, have been printed,
\* and so has an empty argument list.
C13_Witness ==
    /\ Ran /\ outcome.err = "" /\ outcome.node.kind = "Print"
    /\ Len(outcome.node.args) = 3
    /\ output = "\n" \o "None True a" \o "\n"

\* The node of the last run at path cp (the run's statement, or the right
\* side of the Assignment it is).
NodeAt(cp) == IF cp = <<>> THEN outcome.node ELSE outcome.node.rv
\* The last run reached the dispatch of the MethodCall at cp: its receiver
\* was evaluated, to an instance.
Dispatched(cp) ==
    /\ Ran
    /\ cp = <<1>> => outcome.node.kind = "Assignment"
    /\ NodeAt(cp).kind = "MethodCall"
    /\ ExitOf(Append(cp, 1)) # {}
    /\ \A k \in ExitOf(Append(cp, 1)) : Log[k].v.t = "Instance"
\* The instance the receiver of the MethodCall at cp evaluated to.
Receiver(cp) == Log[CHOOSE k \in ExitOf(Append(cp, 1)) : TRUE].v
\* The MethodCall reads a variable and passes constants: evaluating its
\* operands changes nothing.
Inert(node) ==
    /\ node.object.kind = "VariableValue"
    /\ \A i \in 1..Len(node.args) : node.args[i].kind = "Const"

\* C17: the call a MethodCall dispatches raises "method not found" without
\* executing anything exactly when HasMethod is false of the receiver, the
\* method name and the number of actual arguments; the scope, the field
\* maps and the output are then as they were before the call.
C17_MethodNotFound ==
    \A cp \in {<<>>, <<1>>} : Dispatched(cp) =>
      LET node == NodeAt(cp)
          has  == HasMethod(classes, heap[Receiver(cp).id].cls, node.method,
                            Len(node.args))
          last == CHOOSE k \in ExitOf(Append(cp, 1)) : TRUE
      IN  /\ (~has) <=> (outcome.err = "method not found" /\ last = Len(Log))
          /\ has => \E k \in Steps : k > last /\ Log[k].e = "call"
                                     /\ Log[k].key = node.method
          /\ (~has /\ Inert(node)) =>
                /\ closure = outcome.before.closure
                /\ heap = outcome.before.heap
                /\ output = outcome.before.out

\* A method the class has was called with one argument too few.
C17_Witness ==
    /\ Dispatched(<<>>) /\ outcome.node.method = "two"
    /\ Len(outcome.node.args) = 1
    /\ outcome.err = "method not found"

\* The step at which the call dispatched by the MethodCall at cp entered its
\* method body.
CallStep(cp) ==
    CHOOSE c \in Steps :
      /\ Log[c].e = "call" /\ c > (CHOOSE k \in ExitOf(Append(cp, 1)) : TRUE)
      /\ \A d \in Steps : (Log[d].e = "call" /\ d < c)
                             => d < (CHOOSE k \in ExitOf(Append(cp, 1)) : TRUE)
\* The steps at which the scope of the call entered at step c bound key.
BindsIn(c, key) ==
    {k \in Steps : Log[k].e = "bind" /\ Log[k].key = key /\ Log[k].f = Log[c].f}
\* The value a key of that scope is bound to last, dflt when it never is.
LastBound(c, key, dflt) ==
    IF BindsIn(c, key) = {} THEN dflt
    ELSE Log[CHOOSE k \in BindsIn(c, key) : \A j \in BindsIn(c, key) : j <= k].v
\* The MethodCall at cp returned.
Returned(cp) == Dispatched(cp) /\ ExitOf(cp) # {}

\* C18: a call that succeeds returns what self is bound to at the end of
\* the body when that is no longer the receiver (None included), and
\* otherwise the result of the body: the value bound to returned_value in
\* the call's scope, None when there is none.
C18_RebindingSelfWins ==
    \A cp \in {<<>>, <<1>>} : Returned(cp) =>
      LET c    == CallStep(cp)
          self == LastBound(c, "self", Share(Receiver(cp).id))
          body == Log[CHOOSE k \in Steps :
                        /\ Log[k].e = "exit" /\ Log[k].path = Log[c].path
                        /\ Log[k].f = Log[c].f].v
          ret  == Log[CHOOSE k \in ExitOf(cp) : TRUE].v
      IN  /\ body = LastBound(c, "returned_value", None)
          /\ ret = IF SameObject(self, Receiver(cp).id) THEN body ELSE self

\* become has returned with self rebound to None, and None came back.
C18_Witness ==
    /\ Returned(<<1>>) /\ outcome.node.rv.method = "become"
    /\ LastBound(CallStep(<<1>>), "self", Number(0)) = None
    /\ closure["r"] = None
\* become has returned with self rebound to the receiver itself, and the
\* body's result came back.
C18_WitnessSame ==
    /\ Returned(<<1>>) /\ outcome.node.rv.method = "become"
    /\ SameObject(LastBound(CallStep(<<1>>), "self", Number(0)), Receiver(<<1>>).id)
    /\ closure["r"] = Number(1)

\* The steps of the last run at which a node at or below path bound a name
\* of the scope.
BindsUnder(path) ==
    {k \in Steps : IsPrefix(path, Log[k].path) /\ Log[k].e = "bind"}

\* C19: a MethodCall evaluates its receiver before its arguments: every
\* binding the receiver expression makes in the scope precedes every binding
\* an argument expression makes.
C19_ReceiverBeforeArguments ==
    \A cp \in {<<>>, <<1>>} :
      (/\ Ran
       /\ cp = <<1>> => outcome.node.kind = "Assignment"
       /\ NodeAt(cp).kind = "MethodCall")
      => \A r \in BindsUnder(Append(cp, 1)), a \in BindsUnder(Append(cp, 2)) :
            r < a

----------------------------------------------------------------------------
(***************************************************************************)
(*                 Properties of the lexer at the end of input             *)
(***************************************************************************)
\* C14, first half: a call that finds the end of the input where a token
\* would start returns Eof when the token returned before it was Newline,
\* Indent or Dedent, and Newline otherwise.
C14_EofOrNewline ==
    [][(source.closed /\ AtEndOfInput(lexer) /\ lexer' # lexer)
         => /\ lexer'.err = ""
            /\ lexer'.cur.type = IF lexer.cur.type \in {"Newline", "Indent", "Dedent"}
                                 THEN "Eof" ELSE "Newline"]_vars

\* C14, second half: after the Newline returned for the end of the input
\* only Dedent tokens are returned before Eof, and they close every open
\* indentation level: at Eof as many Dedent tokens as Indent tokens have
\* been returned.
C14_DedentsCloseLevels ==
    watch.synth =>
      /\ lexer.err = ""
      /\ lexer.cur.type \in {"Newline", "Dedent", "Eof"}
      /\ lexer.cur.type = "Eof" => watch.open = 0

\* C14: both halves.
C14_EndOfInput == C14_EofOrNewline /\ []C14_DedentsCloseLevels

\* C15: current_indent_ is never negative, and the pending indent delta is
\* zero whenever the token NextToken has returned is not Newline, Indent or
\* Dedent (Eof included).
C15_DeltaOnlyAfterNewline ==
    (lexer.built /\ lexer.err = "") =>
      /\ lexer.indent >= 0
      /\ lexer.cur.type \notin {"Newline", "Indent", "Dedent"} => lexer.diff = 0

----------------------------------------------------------------------------
(***************************************************************************)
(*                      Properties of number lexing                        *)
(***************************************************************************)
RECURSIVE StripZeros(_)
\* A digit run without its leading zeros (the last digit always stays).
StripZeros(s) == IF Len(s) > 1 /\ Head(s) = "0" THEN StripZeros(Tail(s)) ELSE s
\* The digit run the stream starts with, and the character after it.
TypedRun   == SubSeq(source.held, 1, RunLen(source.held, Digits))
AfterRun   == IF Len(TypedRun) = Len(source.held) THEN EOF
              ELSE source.held[Len(TypedRun) + 1]
\* The run's value has at most 18 digits, so it fits in 64 bits.
FitsInt64  == Len(StripZeros(TypedRun)) <= 18
\* The lexer has been constructed on the stream (or has raised).
NumberLexed == source.closed /\ (lexer.built \/ lexer.err # "")

\* C16: a digit run whose value fits in 64 bits and that is followed by a
\* space, a newline, the end of the stream or a special character is lexed
\* as a Number of exactly that value; followed by any other character it
\* raises a LexerError; and number lexing raises no error of another kind.
C16_NumberLexing ==
    NumberLexed =>
      /\ (AfterRun \in {" ", "\n", EOF} \cup special_symbols /\ FitsInt64)
           => /\ lexer.err = ""
              /\ lexer.cur.type = "Number"
              /\ ToString(lexer.cur.num) = Concat(StripZeros(TypedRun))
      /\ AfterRun \notin {" ", "\n", EOF} \cup special_symbols
           => lexer.errKind = "LexerError"
      /\ lexer.err # "" => lexer.errKind = "LexerError"

----------------------------------------------------------------------------
(***************************************************************************)
(*                   Properties of Equal and Less                          *)
(***************************************************************************)
\* The method Equal / Less dispatches to, and the message it raises.
Dunder(cmp)  == IF cmp = "Equal" THEN "__eq__" ELSE "__lt__"
Refusal(cmp) == IF cmp = "Equal" THEN "Cannot compare objects for equality"
                ELSE "Cannot compare objects for less"
\* x is an instance whose class chain has the method with one parameter.
Dispatches(cmp, x) ==
    /\ x.t = "Instance"
    /\ GetMethod(classes, heap[x.id].cls, Dunder(cmp)) # NoMethod
    /\ Len(GetMethod(classes, heap[x.id].cls, Dunder(cmp)).formal_params) = 1
\* Both holders hold a value of the same primitive type.
SamePrimitive(x, y) == x.t \in {"String", "Number", "Bool"} /\ y.t = x.t

\* C20: Equal and Less raise "Cannot compare objects ..." for every pair of
\* operands except (None, None) for Equal, two Strings, two Numbers, two
\* Bools, and a left instance whose class chain has __eq__ / __lt__ with
\* one formal parameter; for such an instance the answer is the truth test
\* of what the method returns (or the exception the call raises).
C20_ComparableOperands ==
    (Compared /\ outcome.cmp \in {"Equal", "Less"}) =>
      LET cmp == outcome.cmp
          x   == outcome.x
          y   == outcome.y
          r   == Call(x.id, Dunder(cmp), <<y>>, outcome.before)
      IN  IF cmp = "Equal" /\ ~NonEmpty(x) /\ ~NonEmpty(y) THEN Gave(TRUE)
          ELSE IF SamePrimitive(x, y) THEN outcome.err = ""
          ELSE IF Dispatches(cmp, x)
          THEN IF r.err # "" THEN outcome.err = r.err
               ELSE Gave(IsTrue(r.val))
          ELSE outcome.err = Refusal(cmp)

\* Less has been dispatched to a __lt__ that returns its argument, the
\* empty string, and has answered false.
C20_Witness ==
    /\ Compared /\ outcome.cmp = "Less" /\ Dispatches("Less", outcome.x)
    /\ outcome.y = String("") /\ Gave(FALSE)
    /\ classes[heap[outcome.x.id].cls].name = "C"

----------------------------------------------------------------------------
(***************************************************************************)
(*              Properties of arithmetic, fields and instances             *)
(***************************************************************************)
\* The last run assigned the value of a Sub, Mult or Div node whose two
\* operands had been evaluated.
Computed ==
    /\ Ran /\ outcome.node.kind = "Assignment"
    /\ outcome.node.rv.kind \in {"Sub", "Mult", "Div"}
    /\ ExitOf(<<1, 1>>) # {} /\ ExitOf(<<1, 2>>) # {}
\* The value operand i of that node evaluated to.
Operand(i) == Log[CHOOSE k \in ExitOf(<<1, i>>) : TRUE].v
\* The message the node raises for operands that are not two Numbers.
Invalid(kind) ==
    CASE kind = "Sub"  -> "invalid subtract operation"
      [] kind = "Mult" -> "invalid mult operation"
      [] kind = "Div"  -> "invalid div operation"

\* C21: Sub, Mult and Div raise when an operand is not a Number, without
\* dispatching to a method of an instance on the left; Div of Numbers by 0
\* raises "division by zero"; otherwise the node yields the Number that is
\* the difference, the product or the quotient (truncated toward zero).
C21_ArithmeticOnNumbers ==
    Computed =>
      LET kind == outcome.node.rv.kind
          l    == Operand(1)
          r    == Operand(2)
      IN  IF l.t # "Number" \/ r.t # "Number"
          THEN /\ outcome.err = Invalid(kind)
               /\ \A k \in Steps : Log[k].e # "call"
          ELSE IF kind = "Div" /\ r.n = 0 THEN outcome.err = "division by zero"
          ELSE /\ outcome.err = ""
               /\ outcome.val = Number(CASE kind = "Sub"  -> l.n - r.n
                                         [] kind = "Mult" -> l.n * r.n
                                         [] kind = "Div"  -> TruncDiv(l.n, r.n))

\* The field names of the instances before / after the last run.
KeysBefore(i) == IF i <= Len(outcome.before.heap)
                 THEN DOMAIN outcome.before.heap[i].fields ELSE {}
KeysAfter(i)  == DOMAIN heap[i].fields
\* The nodes of a statement that are FieldAssignments to the field name.
RECURSIVE Assigns(_, _)
Assigns(node, name) ==
    \/ node.kind = "FieldAssignment" /\ node.field_name = name
    \/ node.kind = "Assignment" /\ Assigns(node.rv, name)
    \/ node.kind = "Print" /\ \E i \in 1..Len(node.args) : Assigns(node.args[i], name)

\* C22: a field map gains a key only through a FieldAssignment to that
\* field, and a VariableValue, a dotted one that names a field never
\* assigned included, leaves the scope and every field map as they were.
C22_ReadsLeaveFieldsAlone ==
    Ran =>
      /\ \A i \in 1..Len(heap) : \A name \in KeysAfter(i) \ KeysBefore(i) :
            Assigns(outcome.node, name)
      /\ outcome.node.kind = "VariableValue" =>
            /\ closure = outcome.before.closure
            /\ heap = outcome.before.heap

----------------------------------------------------------------------------
(***************************************************************************)
(*              Properties of comments and of the layout tokens            *)
(***************************************************************************)
\* C23: a comment after the last token of a code line changes nothing:
\* between the first token of that line and the first token of the next
\* code line the lexer returns one Newline and exactly the Indent or Dedent
\* tokens of the difference between the two lines' indent levels.
C23_TrailingCommentTransparent ==
    (watch.chk.valid /\ ~watch.chk.first /\ watch.pcmt
       /\ watch.chk.from % 2 = 0 /\ watch.chk.to % 2 = 0)
    => LET delta == (watch.chk.to \div 2) - (watch.chk.from \div 2)
       IN  /\ watch.nls = 1
           /\ watch.chk.ind = Max(delta, 0)
           /\ watch.chk.ded = Max(-delta, 0)

\* C24: while the lexer raises no error, the Dedent tokens returned never
\* outnumber the Indent tokens returned, and once Eof has been returned
\* there are as many of the ones as of the others.
C24_LayoutBalanced ==
    (lexer.built /\ lexer.err = "") =>
      /\ watch.open >= 0
      /\ lexer.cur.type = "Eof" => watch.open = 0

\* The last run assigned a NewInstance node.
Instantiated ==
    /\ Ran /\ outcome.node.kind = "Assignment"
    /\ outcome.node.rv.kind = "NewInstance"
\* The steps at which a method called name was entered.
CallsOf(name) == {k \in Steps : Log[k].e = "call" /\ Log[k].key = name}

\* C25: NewInstance yields a handle to a new instance of its class whatever
\* __init__ does; __init__ is called once, on the new instance, when the
\* class chain has it with as many formal parameters as the node has
\* arguments, and otherwise it is not called and no argument is evaluated.
C25_NewInstanceYieldsInstance ==
    Instantiated =>
      LET node   == outcome.node.rv
          init   == GetMethod(classes, node.class, "__init__")
          called == init # NoMethod /\ Len(init.formal_params) = Len(node.args)
          new    == Len(outcome.before.heap) + 1
      IN  /\ outcome.err = "" =>
                /\ outcome.val.t = "Instance" /\ outcome.val.id = new
                /\ Len(heap) = new /\ heap[new].cls = node.class
          /\ (called /\ outcome.err = "") =>
                /\ Cardinality(CallsOf("__init__")) = 1
                /\ \A k \in CallsOf("__init__") : SameObject(Log[k].v, new)
          /\ ~called =>
                /\ outcome.err = ""
                /\ CallsOf("__init__") = {}
                /\ \A k \in Steps : ~IsPrefix(<<1, 1>>, Log[k].path)
=============================================================================
